---- MODULE Spec2Model ----
(***************************************************************************)
(* The Automatic Contextual Retrieval System (ACRS) of vibe-coder-mcp-v4   *)
(* as a state machine.                                                     *)
(*                                                                         *)
(* The program is one Node.js process.  Its state is the module-level      *)
(* registries of contextual-retrieval.ts (three caches, the per-category   *)
(* vector stores and item lists, the metrics, the embedding model and its  *)
(* loading flag and queue) plus, for every tool call in flight, the place  *)
(* where its async function is suspended.                                  *)
(*                                                                         *)
(* Granularity.  JavaScript runs one job at a time.  A step of the model   *)
(* is one job of the event loop: the arrival of a tool call, the           *)
(* settlement of a promise of an external collaborator (the model loader   *)
(* `pipeline`, the inference call, the LLM HTTP call), or one job of the   *)
(* microtask queue.  External events are taken only when the microtask     *)
(* queue is empty, as Node drains it first.  Within one async call chain   *)
(* consecutive awaits of already-running chains are taken in one job.      *)
(*                                                                         *)
(* Collaborators.  Texts are sequences of characters; the inference model  *)
(* is a deterministic function ModelOutput of the raw text it is handed;   *)
(* vectors are pairs of integers in units of 1/20, so inner products are   *)
(* in units of 1/400; category weights are in tenths.  The vector index    *)
(* (IndexFlatIP) is modelled by the interface the code uses.               *)
(***************************************************************************)
EXTENDS Integers, Sequences, FiniteSets, TLC

(***************************************************************************)
(* Bounds of the model.                                                    *)
(***************************************************************************)
\* Number of tool calls made in one behaviour.
MaxCalls == 3
\* Number of tool calls in one behaviour of the ranking specification, which
\* stores two items and retrieves twice.
MaxRankingCalls == 4
\* Number of clock advances in one behaviour.
MaxTicks == 2

\* Tool calls in a behaviour of the sequential-thinking specification.
MaxThinkingCalls == 2

(***************************************************************************)
(* Program constants (contextual-retrieval.ts lines 17-41).                *)
(***************************************************************************)
MEMORY_CATEGORIES ==
  <<"general", "concepts", "code", "procedures", "decisions", "preferences", "metadata">>

MAX_CONTEXT_ITEMS == 15

\* 0.75, in the unit of inner products of the model (1/400).
SIMILARITY_THRESHOLD == 300

\* 24 hours in milliseconds.
CACHE_LIFETIME == 24 * 60 * 60 * 1000

\* Category weights, in tenths.
CATEGORY_WEIGHTS ==
  [general |-> 10, concepts |-> 12, code |-> 13, procedures |-> 11,
   decisions |-> 14, preferences |-> 15, metadata |-> 5]

\* The clock advances in steps of half a cache lifetime.
TickMs == CACHE_LIFETIME \div 2

CategorySet == {MEMORY_CATEGORIES[i] : i \in 1..Len(MEMORY_CATEGORIES)}

(***************************************************************************)
(* Inputs of the tool calls.                                               *)
(***************************************************************************)
\* Raw texts handed to the tools; the first two differ only in case and
\* surrounding white space.
Texts == {<<"a">>, <<" ", "A">>, <<"b">>}

\* Categories handed to add-memory; "bogus" is outside the closed set.
InputCategories == {"code", "bogus"}

\* maxResults values handed to retrieve.
InputMaxResults == {1, 2}

\* Completions the LLM may return (it samples at temperature 0.7).
Responses == {"r1", "r2"}

(***************************************************************************)
(* Strings: String.prototype.trim, toLowerCase, toUpperCase, substring.    *)
(***************************************************************************)
IsSpace(c) == c = " "

ToLowerChar(c) ==
  IF c = "A" THEN "a" ELSE IF c = "B" THEN "b"
  ELSE IF c = "Git" THEN "git" ELSE IF c = "Tool" THEN "tool" ELSE c

RECURSIVE TrimLeft(_)
TrimLeft(s) ==
  IF s = <<>> THEN <<>>
  ELSE IF IsSpace(Head(s)) THEN TrimLeft(Tail(s)) ELSE s

RECURSIVE TrimRight(_)
TrimRight(s) ==
  IF s = <<>> THEN <<>>
  ELSE IF IsSpace(s[Len(s)]) THEN TrimRight(SubSeq(s, 1, Len(s) - 1)) ELSE s

Trim(s) == TrimRight(TrimLeft(s))

ToLowerCase(s) == [i \in 1..Len(s) |-> ToLowerChar(s[i])]

\* text.trim().toLowerCase(): the key of the embedding and retrieval caches.
Normalize(text) == ToLowerCase(Trim(text))

Min(a, b) == IF a < b THEN a ELSE b

\* s.substring(0, n)
Substring0(s, n) == SubSeq(s, 1, Min(n, Len(s)))

(***************************************************************************)
(* The inference collaborator: a deterministic function of the raw text.   *)
(***************************************************************************)
NoVector == <<>>

ModelOutput(text) ==
  CASE text = <<"a">> -> <<20, 0>>
    [] text = <<" ", "A">> -> <<16, 12>>
    [] text = <<"b">> -> <<12, 16>>
    [] text = <<"c">> -> <<15, 13>>
    [] text = <<"d">> -> <<18, 9>>
    [] OTHER -> <<0, 20>>

InnerProduct(u, v) == u[1] * v[1] + u[2] * v[2]

(***************************************************************************)
(* Map<K, V>                                                               *)
(***************************************************************************)
EmptyMap == [x \in {} |-> 0]

Has(m, k) == k \in DOMAIN m

MapSet(m, k, v) == [x \in (DOMAIN m) \cup {k} |-> IF x = k THEN v ELSE m[x]]

MapDelete(m, k) == [x \in (DOMAIN m) \ {k} |-> m[x]]

(***************************************************************************)
(* State.                                                                  *)
(***************************************************************************)
VARIABLES
  embeddingCache,          \* Map: normalized text -> vector
  retrievalCache,          \* Map: normalized query -> [results, timestamp]
  llmResponseCache,        \* Map: trimmed composed prompt -> [response, timestamp]
  vectorStores,            \* category -> sequence of vectors (the index)
  memoryItems,             \* category -> sequence of memory items
  metrics,                 \* the metrics object
  embeddingModel,          \* TRUE when the model is loaded (non-null)
  isEmbeddingModelLoading, \* the loading flag
  embeddingModelQueue,     \* queued embed requests (the calls that wait)
  inits,                   \* runs of initializeEmbeddingModel, by owner
  calls,                   \* the tool calls and where each is suspended
  microtasks,              \* continuations ready to run, in order
  now,                     \* Date.now()
  ticks,                   \* number of clock advances so far
  uuidCounter,             \* number of uuids handed out
  ghost,                   \* history: what an observer of the calls recorded
  scope                    \* the inputs the callers draw from (never changes)

vars ==
  <<embeddingCache, retrievalCache, llmResponseCache, vectorStores, memoryItems,
    metrics, embeddingModel, isEmbeddingModelLoading, embeddingModelQueue, inits,
    calls, microtasks, now, ticks, uuidCounter, ghost, scope>>

Calls == 1..(IF MaxRankingCalls > MaxCalls THEN MaxRankingCalls ELSE MaxCalls)

\* The owner of the initialization started when the module is loaded (line 536).
Background == 0

Owners == {Background} \cup Calls

\* The state as one record, so that the code's functions compose.
Cur ==
  [embeddingCache |-> embeddingCache, retrievalCache |-> retrievalCache,
   llmResponseCache |-> llmResponseCache, vectorStores |-> vectorStores,
   memoryItems |-> memoryItems, metrics |-> metrics,
   embeddingModel |-> embeddingModel,
   isEmbeddingModelLoading |-> isEmbeddingModelLoading,
   embeddingModelQueue |-> embeddingModelQueue, inits |-> inits, calls |-> calls,
   microtasks |-> microtasks, now |-> now, ticks |-> ticks,
   uuidCounter |-> uuidCounter, ghost |-> ghost, scope |-> scope]

\* The step to state S (S is computed once, then compared field by field).
Becomes(S) ==
  \E T \in {S} :
    /\ embeddingCache' = T.embeddingCache
    /\ retrievalCache' = T.retrievalCache
    /\ llmResponseCache' = T.llmResponseCache
    /\ vectorStores' = T.vectorStores
    /\ memoryItems' = T.memoryItems
    /\ metrics' = T.metrics
    /\ embeddingModel' = T.embeddingModel
    /\ isEmbeddingModelLoading' = T.isEmbeddingModelLoading
    /\ embeddingModelQueue' = T.embeddingModelQueue
    /\ inits' = T.inits
    /\ calls' = T.calls
    /\ microtasks' = T.microtasks
    /\ now' = T.now
    /\ ticks' = T.ticks
    /\ uuidCounter' = T.uuidCounter
    /\ ghost' = T.ghost
    /\ scope' = T.scope

NoItem ==
  [id |-> 0, embedding |-> NoVector, content |-> <<>>, category |-> "",
   timestamp |-> 0]

\* No earlier retrieve of the query.
NoRetrieve ==
  [exists |-> FALSE, results |-> <<>>, ok |-> FALSE, at |-> 0, entryStamp |-> 0,
   maxResults |-> 0, stored |-> 0, serial |-> 0]

\* A quotient of two integers, kept as numerator and denominator.
Quotient(n, d) == [num |-> n, den |-> d]

Zero == Quotient(0, 1)

NoSnapshot ==
  [totalQueries |-> 0, cacheHits |-> 0, cacheQueries |-> 0,
   averageRetrievalTime |-> Zero, cacheHitRate |-> Zero,
   categoryDistribution |-> [c \in CategorySet |-> 0]]

\* A tool call that has not arrived yet.
IdleCall ==
  [op |-> "none", pc |-> "idle", text |-> <<>>, category |-> "general",
   inputCategory |-> "", maxResults |-> 0, embedText |-> <<>>, startTime |-> 0,
   embedPath |-> "none", embedOk |-> FALSE, embedding |-> NoVector,
   initOk |-> FALSE, inferences |-> 0, searches |-> 0, llmCalls |-> 0,
   servedFromCache |-> FALSE, results |-> <<>>, enhancedPrompt |-> <<>>,
   response |-> "", fromCache |-> FALSE, item |-> NoItem,
   snapshot |-> NoSnapshot, seenReturned |-> {}, evictedRetrieval |-> FALSE,
   evictedResponse |-> FALSE, stored |-> 0, searchReturned |-> FALSE,
   searchOk |-> FALSE, contextItems |-> <<>>, contextCount |-> 0,
   tool |-> "", error |-> "", errorFields |-> <<>>,
   httpRequests |-> 0, httpFailure |-> "",
   insertsBetween |-> FALSE, prev |-> NoRetrieve,
   prompt |-> <<>>, thinking |-> <<>>, thoughts |-> <<>>,
   selectedTool |-> "", explanation |-> <<>>]

NoInit == [pc |-> "none", req |-> 0]

(***************************************************************************)
(* The Embedding Gateway: initializeEmbeddingModel and generateEmbedding.  *)
(***************************************************************************)
\* A continuation is appended to the microtask queue.
Schedule(S, job) == [S EXCEPT !.microtasks = Append(@, job)]

\* The promise a call awaits is settled: its continuation is scheduled.
\* pc "resume": the embed it awaits settled; "resumeInit": the
\* initialization it awaits settled.
Resume(S, p, pc) == Schedule([S EXCEPT !.calls[p].pc = pc], <<"call", p>>)

\* Line 105: the guard of initializeEmbeddingModel.
InitGuard(S) == S.embeddingModel \/ S.isEmbeddingModelLoading

\* A variant of line 107 that leaves the flag down while the loader runs.
LoadingFlagForgotten == FALSE

\* Line 107: the flag is raised before the loader is awaited.
LoadingFlagRaised == TRUE

\* Lines 104-111, up to the await of pipeline(): owner o calls
\* initializeEmbeddingModel.  A call that owns the run awaits it.
InitializeEmbeddingModel(S, o) ==
  IF InitGuard(S)
  THEN IF o = Background THEN S
       ELSE Resume([S EXCEPT !.calls[o].initOk = TRUE], o, "resumeInit")
  ELSE LET S1 == [S EXCEPT !.isEmbeddingModelLoading = LoadingFlagRaised,
                           !.inits[o] = [pc |-> "pipeline", req |-> 0]]
       IN IF o = Background THEN S1
          ELSE [S1 EXCEPT !.calls[o].pc = "awaitInit"]

\* Line 171: embeddingModel(text, ...) is invoked for call p's text, by the
\* call itself (o = -1) or by run o of the initialization, which drains it.
StartInference(S, p, o) ==
  LET S1 == [S EXCEPT !.calls[p].inferences = @ + 1]
  IN IF o = -1 THEN [S1 EXCEPT !.calls[p].pc = "inferring"]
     ELSE [S1 EXCEPT !.inits[o].pc = "drainInfer"]

\* Line 160: an embed that finds no model queues when the flag is raised.
ShouldQueue(S) == S.isEmbeddingModelLoading

\* A variant of line 149 in which an embedding older than the lifetime counts
\* as absent.
EmbeddingCachedWhileLive(S, cacheKey) ==
  /\ Has(S.embeddingCache, cacheKey)
  /\ S.now - S.ghost.embeddingCachedAt[cacheKey] < CACHE_LIFETIME

\* Line 149: the embedding cache holds the key; its entries carry no
\* timestamp and are never looked at for their age.
EmbeddingCached(S, cacheKey) == Has(S.embeddingCache, cacheKey)

\* A variant of lines 150-151 in which a hit in the embedding cache is not
\* counted as a query.
GenerateEmbeddingHitUncounted(S, p, o) ==
  LET text == S.calls[p].embedText
      cacheKey == Normalize(text)
  IN IF EmbeddingCached(S, cacheKey)
     THEN LET S1 == [S EXCEPT !.metrics.cacheHits = @ + 1,
                              !.calls[p].embedOk = TRUE,
                              !.calls[p].embedding = S.embeddingCache[cacheKey],
                              !.calls[p].embedPath =
                                 IF o = -1 THEN "hit" ELSE @]
          IN IF o = -1 THEN Resume(S1, p, "resume")
             ELSE Schedule([S1 EXCEPT !.inits[o].pc = "drainSettled"],
                           <<"init", o>>)
     ELSE LET S1 == [S EXCEPT !.metrics.cacheQueries = @ + 1]
          IN IF ~S1.embeddingModel
             THEN IF ShouldQueue(S1)
                  THEN [S1 EXCEPT !.embeddingModelQueue = Append(@, p),
                                  !.calls[p].pc = "queued",
                                  !.calls[p].embedPath = "queued"]
                  ELSE InitializeEmbeddingModel(
                         [S1 EXCEPT !.calls[p].embedPath = "init"], p)
             ELSE StartInference(
                    [S1 EXCEPT !.calls[p].embedPath =
                                  IF o = -1 THEN "direct" ELSE @], p, o)

\* Lines 146-167: generateEmbedding(text) up to its first await, for call p's
\* text; o as in StartInference.
GenerateEmbedding(S, p, o) ==
  LET text == S.calls[p].embedText
      cacheKey == Normalize(text)
  IN IF EmbeddingCached(S, cacheKey)
     THEN LET S1 == [S EXCEPT !.metrics.cacheHits = @ + 1,
                              !.metrics.cacheQueries = @ + 1,
                              !.calls[p].embedOk = TRUE,
                              !.calls[p].embedding = S.embeddingCache[cacheKey],
                              !.calls[p].embedPath =
                                 IF o = -1 THEN "hit" ELSE @]
          IN IF o = -1 THEN Resume(S1, p, "resume")
             ELSE Schedule([S1 EXCEPT !.inits[o].pc = "drainSettled"],
                           <<"init", o>>)
     ELSE LET S1 == [S EXCEPT !.metrics.cacheQueries = @ + 1]
          IN IF ~S1.embeddingModel
             THEN IF ShouldQueue(S1)
                  THEN [S1 EXCEPT !.embeddingModelQueue = Append(@, p),
                                  !.calls[p].pc = "queued",
                                  !.calls[p].embedPath = "queued"]
                  ELSE InitializeEmbeddingModel(
                         [S1 EXCEPT !.calls[p].embedPath = "init"], p)
             ELSE StartInference(
                    [S1 EXCEPT !.calls[p].embedPath =
                                  IF o = -1 THEN "direct" ELSE @], p, o)

\* Lines 172-177: the inference for call p's text returned a vector; it is
\* cached under the normalized text.
InferenceReturned(S, p) ==
  LET text == S.calls[p].embedText
      embedding == ModelOutput(text)
  IN [S EXCEPT !.embeddingCache = MapSet(@, Normalize(text), embedding),
               !.ghost.embeddingCachedAt = MapSet(@, Normalize(text), S.now),
               !.calls[p].embedOk = TRUE,
               !.calls[p].embedding = embedding]

\* Lines 178-181: the inference threw; generateEmbedding rethrows.
InferenceThrew(S, p) ==
  [S EXCEPT !.calls[p].embedOk = FALSE, !.calls[p].embedding = NoVector]

\* A variant of the loop that ends the run without looking at the queue.
DrainQueueSkipped(S, o) ==
  LET S1 == [S EXCEPT !.isEmbeddingModelLoading = FALSE, !.inits[o] = NoInit]
  IN IF o = Background THEN S1
     ELSE Resume([S1 EXCEPT !.calls[o].initOk = TRUE], o, "resumeInit")

\* A variant of line 116 that takes the request queued last (pop for shift).
DrainQueueLastFirst(S, o) ==
  IF S.embeddingModelQueue # <<>>
  THEN LET request == S.embeddingModelQueue[Len(S.embeddingModelQueue)]
           S1 == [S EXCEPT !.embeddingModelQueue = SubSeq(@, 1, Len(@) - 1),
                           !.inits[o] = [pc |-> "drain", req |-> request],
                           !.calls[request].pc = "draining"]
       IN GenerateEmbedding(S1, request, o)
  ELSE LET S1 == [S EXCEPT !.isEmbeddingModelLoading = FALSE,
                           !.inits[o] = NoInit]
       IN IF o = Background THEN S1
          ELSE Resume([S1 EXCEPT !.calls[o].initOk = TRUE], o, "resumeInit")

\* Lines 115-123 and 137: the loop that drains the queue after a successful
\* load, up to its next await; with the queue empty the flag is cleared and
\* the run ends.
DrainQueue(S, o) ==
  IF S.embeddingModelQueue # <<>>
  THEN LET request == Head(S.embeddingModelQueue)
           S1 == [S EXCEPT !.embeddingModelQueue = Tail(@),
                           !.inits[o] = [pc |-> "drain", req |-> request],
                           !.calls[request].pc = "draining"]
       IN GenerateEmbedding(S1, request, o)
  ELSE LET S1 == [S EXCEPT !.isEmbeddingModelLoading = FALSE,
                           !.inits[o] = NoInit]
       IN IF o = Background THEN S1
          ELSE Resume([S1 EXCEPT !.calls[o].initOk = TRUE], o, "resumeInit")

\* Line 111 resolved: the model is stored and the queue is drained.
ModelLoaded(S, o) == DrainQueue([S EXCEPT !.embeddingModel = TRUE], o)

\* Lines 119-122: the embed of the drained request settled; the request is
\* resolved or rejected with it and the loop goes on.
DrainSettled(S, o) ==
  LET request == S.inits[o].req
  IN DrainQueue(Resume(S, request, "resume"), o)

\* Lines 129-132: every queued request is rejected, in queue order.
RECURSIVE RejectQueued(_)
RejectQueued(S) ==
  IF S.embeddingModelQueue = <<>> THEN S
  ELSE LET request == Head(S.embeddingModelQueue)
       IN RejectQueued(
            Resume([S EXCEPT !.embeddingModelQueue = Tail(@),
                             !.calls[request].embedOk = FALSE],
                   request, "resume"))

\* A variant of the catch clause that leaves the loading flag raised.
ModelLoadFailedKeepsFlag(S, o) ==
  LET S1 == RejectQueued([S EXCEPT !.inits[o] = NoInit])
  IN IF o = Background THEN S1
     ELSE Resume([S1 EXCEPT !.calls[o].initOk = FALSE], o, "resumeInit")

\* Lines 124-135: pipeline() rejected.  The flag is cleared, the queue is
\* rejected and the error is thrown to the owner.
ModelLoadFailed(S, o) ==
  LET S1 == RejectQueued([S EXCEPT !.isEmbeddingModelLoading = FALSE,
                                   !.inits[o] = NoInit])
  IN IF o = Background THEN S1
     ELSE Resume([S1 EXCEPT !.calls[o].initOk = FALSE], o, "resumeInit")

(***************************************************************************)
(* addMemoryItem (lines 192-217).                                          *)
(***************************************************************************)
\* Lines 193-196: an unknown category falls back to general.
EffectiveCategory(category) ==
  IF category \in CategorySet THEN category ELSE "general"

\* The call ends: its promise is rejected (failed) or resolved (done).
Finish(S, p, pc) == [S EXCEPT !.calls[p].pc = pc]

\* A variant of lines 210-211 that puts the new vector and item in front of
\* the stored ones (unshift for push).
StoreItemInFront(S, category, memoryItem) ==
  [S EXCEPT !.vectorStores[category] = <<memoryItem.embedding>> \o @,
            !.memoryItems[category] = <<memoryItem>> \o @]

\* Lines 209-211: the vector is added to the index and the item to the list.
StoreItem(S, category, memoryItem) ==
  [S EXCEPT !.vectorStores[category] = Append(@, memoryItem.embedding),
            !.memoryItems[category] = Append(@, memoryItem)]

\* A variant of lines 209-214 that counts the insert before the index add, so
\* that an add that throws leaves the counter raised.
AddMemoryItemRestCountsFirst(S, p, indexOk) ==
  LET c == S.calls[p]
      memoryItem ==
        [id |-> S.uuidCounter + 1, embedding |-> c.embedding,
         content |-> c.embedText, category |-> c.category, timestamp |-> S.now]
      S0 == [S EXCEPT !.uuidCounter = @ + 1,
                      !.metrics.categoryCounts[c.category] = @ + 1]
  IN IF ~indexOk THEN Finish(S0, p, "failed")
     ELSE Finish([StoreItem(S0, c.category, memoryItem)
                    EXCEPT !.calls[p].item = memoryItem], p, "done")

\* A variant of lines 209-211 that pushes the item before the index add, so
\* that an add that throws leaves the item behind.
AddMemoryItemRestPushFirst(S, p, indexOk) ==
  LET c == S.calls[p]
      memoryItem ==
        [id |-> S.uuidCounter + 1, embedding |-> c.embedding,
         content |-> c.embedText, category |-> c.category, timestamp |-> S.now]
  IN IF ~indexOk
     THEN Finish([S EXCEPT !.uuidCounter = @ + 1,
                           !.memoryItems[c.category] = Append(@, memoryItem)],
                 p, "failed")
     ELSE LET S1 == StoreItem([S EXCEPT !.uuidCounter = @ + 1],
                              c.category, memoryItem)
          IN Finish([S1 EXCEPT !.metrics.categoryCounts[c.category] = @ + 1,
                               !.calls[p].item = memoryItem],
                    p, "done")

\* Lines 200-216: the rest of addMemoryItem once the embedding is there.
\* indexOk: whether the index accepts the vector (add may throw).
AddMemoryItemRest(S, p, indexOk) ==
  LET c == S.calls[p]
      memoryItem ==
        [id |-> S.uuidCounter + 1, embedding |-> c.embedding,
         content |-> c.embedText, category |-> c.category, timestamp |-> S.now]
  IN IF ~indexOk THEN Finish(S, p, "failed")
     ELSE LET S1 == StoreItem([S EXCEPT !.uuidCounter = @ + 1],
                              c.category, memoryItem)
          IN Finish([S1 EXCEPT !.metrics.categoryCounts[c.category] = @ + 1,
                               !.calls[p].item = memoryItem],
                    p, "done")

(***************************************************************************)
(* The vector index: IndexFlatIP.search(query, k).                         *)
(***************************************************************************)
\* The k positions of largest inner product with the query, best first
\* (equal products: lower position first), as the code reads them:
\* neighbors[i] and distances[i].
RECURSIVE TopK(_, _, _, _)
TopK(vectors, query, positions, k) ==
  IF k = 0 \/ positions = {} THEN <<>>
  ELSE LET best ==
             CHOOSE i \in positions :
               \A j \in positions :
                 \/ InnerProduct(vectors[i], query) > InnerProduct(vectors[j], query)
                 \/ /\ InnerProduct(vectors[i], query) = InnerProduct(vectors[j], query)
                    /\ i <= j
       IN <<[neighbor |-> best, distance |-> InnerProduct(vectors[best], query)]>>
            \o TopK(vectors, query, positions \ {best}, k - 1)

IndexSearch(vectors, query, k) == TopK(vectors, query, 1..Len(vectors), k)

(***************************************************************************)
(* searchMemory (lines 226-291).                                           *)
(***************************************************************************)
\* A variant of line 261 that also drops a hit of exactly the threshold.
RECURSIVE MapHitsStrict(_, _, _)
MapHitsStrict(hits, items, category) ==
  IF hits = <<>> THEN <<>>
  ELSE LET h == Head(hits)
           rest == MapHitsStrict(Tail(hits), items, category)
       IN IF h.distance <= SIMILARITY_THRESHOLD THEN rest
          ELSE <<[item |-> items[h.neighbor],
                  score |-> h.distance * CATEGORY_WEIGHTS[category]]>> \o rest

\* A variant of line 264 that leaves the category weight out of the score.
RECURSIVE MapHitsUnweighted(_, _, _)
MapHitsUnweighted(hits, items, category) ==
  IF hits = <<>> THEN <<>>
  ELSE LET h == Head(hits)
           rest == MapHitsUnweighted(Tail(hits), items, category)
       IN IF h.distance < SIMILARITY_THRESHOLD THEN rest
          ELSE <<[item |-> items[h.neighbor], score |-> h.distance * 10]>>
                 \o rest

\* Lines 260-267: the hits of one category that pass the threshold, each
\* with its weighted score (in units of 1/4000).
RECURSIVE MapHits(_, _, _)
MapHits(hits, items, category) ==
  IF hits = <<>> THEN <<>>
  ELSE LET h == Head(hits)
           rest == MapHits(Tail(hits), items, category)
       IN IF h.distance < SIMILARITY_THRESHOLD THEN rest
          ELSE <<[item |-> items[h.neighbor],
                  score |-> h.distance * CATEGORY_WEIGHTS[category]]>> \o rest

\* Lines 253-268: the categories from position i on, in the fixed order.
RECURSIVE SearchCategories(_, _, _, _)
SearchCategories(S, queryEmbedding, maxResults, i) ==
  IF i > Len(MEMORY_CATEGORIES) THEN <<>>
  ELSE LET category == MEMORY_CATEGORIES[i]
           rest == SearchCategories(S, queryEmbedding, maxResults, i + 1)
       IN IF Len(S.memoryItems[category]) = 0 THEN rest
          ELSE MapHits(
                 IndexSearch(S.vectorStores[category], queryEmbedding,
                             Min(maxResults, Len(S.memoryItems[category]))),
                 S.memoryItems[category], category) \o rest

\* A variant of the sort that is not stable: an element is put in front of
\* the elements of equal score that came before it.
RECURSIVE InsertByScoreBeforeEqual(_, _)
InsertByScoreBeforeEqual(sorted, x) ==
  IF sorted = <<>> THEN <<x>>
  ELSE IF Head(sorted).score > x.score
       THEN <<Head(sorted)>> \o InsertByScoreBeforeEqual(Tail(sorted), x)
       ELSE <<x>> \o sorted

\* Array.prototype.sort((a, b) => b.score - a.score): stable, descending.
RECURSIVE InsertByScore(_, _)
InsertByScore(sorted, x) ==
  IF sorted = <<>> THEN <<x>>
  ELSE IF Head(sorted).score >= x.score
       THEN <<Head(sorted)>> \o InsertByScore(Tail(sorted), x)
       ELSE <<x>> \o sorted

RECURSIVE SortByScore(_)
SortByScore(list) ==
  IF list = <<>> THEN <<>>
  ELSE InsertByScore(SortByScore(SubSeq(list, 1, Len(list) - 1)), list[Len(list)])

\* A variant of lines 271-273 that slices without sorting.
RankResultsUnsorted(allResults, maxResults) ==
  SubSeq(allResults, 1, Min(maxResults, Len(allResults)))

\* Lines 271-273: sort and slice(0, maxResults).
RankResults(allResults, maxResults) ==
  SubSeq(SortByScore(allResults), 1, Min(maxResults, Len(allResults)))

\* The categories that hold at least one item: each is searched once.
NonEmptyCategories(S) == {c \in CategorySet : Len(S.memoryItems[c]) > 0}

\* History: searchMemory of call p returned; what a later retrieve of the
\* same query is compared with.  stored: the number of items stored when the
\* call arrived; an insert since then shows in uuidCounter.
NoteRetrieve(S, p, ok) ==
  LET cacheKey == Normalize(S.calls[p].text)
      c == S.calls[p]
      last == S.ghost.lastRetrieve
  IN [S EXCEPT !.ghost.lastRetrieve =
        MapSet(last, cacheKey,
               [exists |-> TRUE, results |-> c.results, ok |-> ok, at |-> S.now,
                entryStamp |-> IF Has(S.retrievalCache, cacheKey)
                               THEN S.retrievalCache[cacheKey].timestamp ELSE 0,
                maxResults |-> c.maxResults, stored |-> c.stored,
                serial |-> IF Has(last, cacheKey) THEN last[cacheKey].serial + 1
                           ELSE 1]),
               !.calls[p].searchReturned = TRUE,
               !.calls[p].searchOk = ok,
               !.calls[p].insertsBetween =
                  /\ c.prev.exists
                  /\ \/ ~Has(last, cacheKey)
                     \/ last[cacheKey].serial # c.prev.serial
                     \/ S.uuidCounter # c.prev.stored]

\* A variant of lines 275-286 that leaves out the cache write of line 276.
CacheResultsNotStored(S, p, sortedResults) ==
  [S EXCEPT !.metrics.retrievalTimes = Append(@, S.now - S.calls[p].startTime),
            !.metrics.contextItemsUsed = Append(@, Len(sortedResults)),
            !.calls[p].results = sortedResults]

\* Lines 275-286: the ranked list is cached and the metrics are updated.
CacheResults(S, p, sortedResults) ==
  [S EXCEPT !.retrievalCache =
              MapSet(@, Normalize(S.calls[p].text),
                     [results |-> sortedResults, timestamp |-> S.now]),
            !.metrics.retrievalTimes = Append(@, S.now - S.calls[p].startTime),
            !.metrics.contextItemsUsed = Append(@, Len(sortedResults)),
            !.calls[p].results = sortedResults]

\* A variant of lines 287-290 in which the catch clause caches the empty
\* list it returns.
SearchMemoryRestCachesFallback(S, p, indexOk) ==
  LET c == S.calls[p]
      nonEmpty == NonEmptyCategories(S)
      fallback(T) ==
        [T EXCEPT !.retrievalCache =
                     MapSet(@, Normalize(c.text),
                            [results |-> <<>>, timestamp |-> S.now]),
                  !.calls[p].results = <<>>]
  IN IF ~c.embedOk
     THEN NoteRetrieve(fallback(S), p, FALSE)
     ELSE IF ~indexOk /\ nonEmpty # {}
     THEN NoteRetrieve(fallback([S EXCEPT !.calls[p].searches = @ + 1]),
                       p, FALSE)
     ELSE NoteRetrieve(
            CacheResults(
              [S EXCEPT !.calls[p].searches = @ + Cardinality(nonEmpty)], p,
              RankResults(SearchCategories(S, c.embedding, c.maxResults, 1),
                          c.maxResults)),
            p, TRUE)

\* Lines 248-290: the rest of searchMemory once the embed settled.  A failed
\* embed or a search that throws (indexOk false) ends in the catch clause.
SearchMemoryRest(S, p, indexOk) ==
  LET c == S.calls[p]
      nonEmpty == NonEmptyCategories(S)
  IN IF ~c.embedOk
     THEN NoteRetrieve([S EXCEPT !.calls[p].results = <<>>], p, FALSE)
     ELSE IF ~indexOk /\ nonEmpty # {}
     THEN NoteRetrieve([S EXCEPT !.calls[p].results = <<>>,
                                 !.calls[p].searches = @ + 1], p, FALSE)
     ELSE NoteRetrieve(
            CacheResults(
              [S EXCEPT !.calls[p].searches = @ + Cardinality(nonEmpty)], p,
              RankResults(SearchCategories(S, c.embedding, c.maxResults, 1),
                          c.maxResults)),
            p, TRUE)

\* A variant of line 235 that still serves an entry of exactly the lifetime.
IsLiveInclusive(S, timestamp) == S.now - timestamp <= CACHE_LIFETIME

\* Line 235: a cached entry is served while it is younger than the lifetime.
IsLive(S, timestamp) == S.now - timestamp < CACHE_LIFETIME

\* A variant of lines 236-238 that also counts the hit as a query.
ServeCachedCountsQuery(S, p, cached) ==
  [S EXCEPT !.metrics.cacheHits = @ + 1,
            !.metrics.cacheQueries = @ + 1,
            !.metrics.queryCount = @ + 1,
            !.calls[p].results = cached.results,
            !.calls[p].servedFromCache = TRUE]

\* Lines 236-238: a live entry is served; both cache counters are bumped.
ServeCached(S, p, cached) ==
  [S EXCEPT !.metrics.cacheHits = @ + 1,
            !.metrics.cacheQueries = @ + 1,
            !.calls[p].results = cached.results,
            !.calls[p].servedFromCache = TRUE]

\* Lines 226-249: searchMemory up to its first await.
SearchMemory(S, p) ==
  LET cacheKey == Normalize(S.calls[p].text)
      last == S.ghost.lastRetrieve
      S0 == [S EXCEPT !.calls[p].startTime = S.now,
                      !.calls[p].embedText = S.calls[p].text,
                      !.calls[p].prev =
                         IF Has(last, cacheKey) THEN last[cacheKey]
                         ELSE NoRetrieve]
      miss(T) == GenerateEmbedding(
                   [T EXCEPT !.metrics.cacheQueries = @ + 1,
                             !.metrics.queryCount = @ + 1], p, -1)
  IN IF Has(S0.retrievalCache, cacheKey)
     THEN LET cached == S0.retrievalCache[cacheKey]
          IN IF IsLive(S0, cached.timestamp)
             THEN Resume(NoteRetrieve(ServeCached(S0, p, cached), p, TRUE),
                         p, "searched")
             ELSE miss([S0 EXCEPT !.retrievalCache = MapDelete(@, cacheKey),
                                  !.calls[p].evictedRetrieval = TRUE])
     ELSE miss(S0)

(***************************************************************************)
(* enhancePrompt (lines 299-336).                                          *)
(***************************************************************************)
\* category.toUpperCase()
CategoryTag(category) ==
  CASE category = "general" -> "GENERAL"
    [] category = "concepts" -> "CONCEPTS"
    [] category = "code" -> "CODE"
    [] category = "procedures" -> "PROCEDURES"
    [] category = "decisions" -> "DECISIONS"
    [] category = "preferences" -> "PREFERENCES"
    [] category = "metadata" -> "METADATA"
    [] OTHER -> category

\* Lines 312-315: `[${category.toUpperCase()}] ${content}`
ContextString(item) == <<"[", CategoryTag(item.category), "]", " ">> \o item.content

\* contextStrings.join('\n\n')
RECURSIVE JoinContext(_)
JoinContext(results) ==
  IF results = <<>> THEN <<>>
  ELSE IF Len(results) = 1 THEN ContextString(results[1].item)
  ELSE ContextString(results[1].item) \o <<"\n", "\n">> \o JoinContext(Tail(results))

\* A variant of lines 303-329 without the early return for an empty list.
EnhancedPromptAlwaysWrapped(prompt, results) ==
  Trim(<<"\n", "I'll provide ... RELEVANT CONTEXT:", "\n">>
       \o JoinContext(results)
       \o <<"\n", "\n", "USER QUESTION:", "\n">> \o prompt
       \o <<"\n", "\n", "Please answer ... your own knowledge.", "\n">>)

\* Lines 303-329: the prompt handed on; with no results it is the original.
EnhancedPrompt(prompt, results) ==
  IF Len(results) = 0 THEN prompt
  ELSE Trim(<<"\n", "I'll provide ... RELEVANT CONTEXT:", "\n">>
            \o JoinContext(results)
            \o <<"\n", "\n", "USER QUESTION:", "\n">> \o prompt
            \o <<"\n", "\n", "Please answer ... your own knowledge.", "\n">>)

\* Lines 306 and 333: contextItems, the items of the results.
ContextItems(results) == [i \in 1..Len(results) |-> results[i].item]

\* Lines 299-336 after searchMemory returned.
EnhancePromptRest(S, p) ==
  [S EXCEPT !.calls[p].enhancedPrompt =
              EnhancedPrompt(S.calls[p].text, S.calls[p].results),
            !.calls[p].contextItems = ContextItems(S.calls[p].results)]

\* Lines 430-434: what acrs_enhance_prompt returns.
EnhanceReturn(S, p) ==
  [S EXCEPT !.calls[p].contextCount = Len(S.calls[p].contextItems)]

(***************************************************************************)
(* performDirectLlmCall (llmProvider.ts lines 84-153).                     *)
(***************************************************************************)
\* What axios.post can reject with.  kind tells what happened; the other
\* fields are what the catch clause looks at: whether the error is an
\* AxiosError, its code, and whether it carries a response and a request.
\* The request timed out after the 60 seconds of line 125.
Timeout ==
  [kind |-> "timed out", isAxiosError |-> TRUE, code |-> "ECONNABORTED",
   response |-> FALSE, request |-> TRUE]

\* The server answered with an error status and a body.
ErrorStatus ==
  [kind |-> "error status", isAxiosError |-> TRUE, code |-> "ERR_BAD_RESPONSE",
   response |-> TRUE, request |-> TRUE]

\* The request was sent and no response came.
NoResponse ==
  [kind |-> "no response", isAxiosError |-> TRUE, code |-> "ECONNREFUSED",
   response |-> FALSE, request |-> TRUE]

\* axios refused the request before sending it (OPENROUTER_BASE_URL, read
\* from the environment at line 17, names a protocol it does not support).
NotSent ==
  [kind |-> "not sent", isAxiosError |-> TRUE, code |-> "ERR_BAD_REQUEST",
   response |-> FALSE, request |-> FALSE]

\* An error that is not an AxiosError.
Thrown ==
  [kind |-> "thrown", isAxiosError |-> FALSE, code |-> "",
   response |-> FALSE, request |-> FALSE]

HttpFailures == {Timeout, ErrorStatus, NoResponse, NotSent, Thrown}

\* Lines 130-152: the error performDirectLlmCall throws for a rejection of
\* axios.post: one of the three messages of lines 22-24, or the error itself.
ClassifyLlmError(error) ==
  IF error.isAxiosError
  THEN IF error.code = "ECONNABORTED" THEN "LLM API request timed out"
       ELSE IF error.response THEN "LLM API returned an error"
       ELSE IF error.request THEN "Network error occurred"
       ELSE "unknown error"
  ELSE "unknown error"

\* Lines 84-127: performDirectLlmCall up to the await of axios.post, called
\* by call p.  Without an API key it throws before any request is made, and
\* the error ends the tool call (part_000 lines 397-401).
PerformDirectLlmCall(S, p) ==
  LET S1 == [S EXCEPT !.calls[p].llmCalls = @ + 1]
  IN IF ~S1.scope.apiKey
     THEN [S1 EXCEPT !.calls[p].error = "OpenRouter API key not found",
                     !.calls[p].pc = "failed"]
     ELSE [S1 EXCEPT !.calls[p].pc = "llm", !.calls[p].httpRequests = @ + 1]

(***************************************************************************)
(* generateSequentialThinking (sequential-thinking.ts lines 65-209).       *)
(* A text is a sequence of lexemes: a word, a number, a punctuation mark,  *)
(* a blank or a line break.                                                *)
(***************************************************************************)
MAX_THOUGHTS == 6

\* response.choices[0].message.content is missing from the completion
\* (llmProvider.ts line 128 casts the body of the reply without a look).
NoContent == <<"undefined">>

\* Completions the LLM may return for the thinking prompt: the empty text, no
\* content, a number with nothing after it, text without a number, numbered
\* thoughts naming a tool in the last one, naming one only in the first,
\* a final thought followed by a revision, and a sentence about no tool.
Thinkings ==
  {<<>>,
   NoContent,
   <<"1", ".">>,
   <<"plan">>,
   <<"1", ".", " ", "plan", "\n",
     "2", ".", " ", "use", " ", "the", " ", "Git", " ", "tool">>,
   <<"Thought", " ", "1", ":", " ", "use", " ", "the", " ", "Git", " ", "tool",
     "\n", "6", ".", " ", "plan">>,
   <<"1", ".", " ", "final", " ", "Tool", ":", " ", "research", "\n",
     " ", "plan", "\n", "2", ".", " ", "revise">>,
   <<"use", " ", "the", " ", "tool">>}

\* thinking.split('\n')
RECURSIVE Split(_)
Split(s) ==
  IF \A i \in 1..Len(s) : s[i] # "\n" THEN <<s>>
  ELSE LET i == CHOOSE j \in 1..Len(s) :
                  s[j] = "\n" /\ \A k \in 1..(j - 1) : s[k] # "\n"
       IN <<SubSeq(s, 1, i - 1)>> \o Split(SubSeq(s, i + 1, Len(s)))

\* Line 112: trimmedLine.match(/^(?:Thought\s*)?(\d+)[:.]/): the number and
\* the length of the match, length 0 when there is none.
NumberMatch(trimmedLine) ==
  LET value == [d \in {"1", "2", "6"} |-> IF d = "1" THEN 1
                                          ELSE IF d = "2" THEN 2 ELSE 6]
      afterWord ==
        IF trimmedLine # <<>> /\ Head(trimmedLine) = "Thought"
        THEN Len(trimmedLine) - Len(TrimLeft(Tail(trimmedLine)))
        ELSE 0
      at(i) == IF i <= Len(trimmedLine) THEN trimmedLine[i] ELSE ""
  IN IF at(afterWord + 1) \in DOMAIN value /\ at(afterWord + 2) \in {":", "."}
     THEN [number |-> value[at(afterWord + 1)], length |-> afterWord + 2]
     ELSE [number |-> 0, length |-> 0]

\* Lines 126-137: the type of a thought, from the words of its first line.
ThoughtTypeOf(trimmedLine, thoughtNumber) ==
  LET lower == ToLowerCase(trimmedLine)
      wordsWith == [revis |-> {"revise", "revision"}, branch |-> {"branch"},
                    alternat |-> {"alternative"}, conclu |-> {"conclusion"},
                    final |-> {"final", "finally"}]
      includes(stem) == \E i \in 1..Len(lower) : lower[i] \in wordsWith[stem]
  IN IF includes("revis") THEN "revision"
     ELSE IF includes("branch") \/ includes("alternat") THEN "branch"
     ELSE IF \/ includes("conclu") \/ includes("final")
             \/ thoughtNumber = MAX_THOUGHTS
          THEN "conclusion"
     ELSE "standard"

\* Lines 108-141: the loop over the lines of the completion.  st holds
\* thoughts, currentThought, thoughtType and thoughtNumber.
RECURSIVE ParseLines(_, _)
ParseLines(thoughtLines, st) ==
  IF thoughtLines = <<>> THEN st
  ELSE LET trimmedLine == Trim(Head(thoughtLines))
           numberMatch == NumberMatch(trimmedLine)
           saved == IF st.currentThought # <<>>
                    THEN Append(st.thoughts,
                                [number |-> st.thoughtNumber,
                                 content |-> Trim(st.currentThought),
                                 type |-> st.thoughtType])
                    ELSE st.thoughts
       IN ParseLines(
            Tail(thoughtLines),
            IF numberMatch.length > 0
            THEN [thoughts |-> saved,
                  currentThought |-> SubSeq(trimmedLine, numberMatch.length + 1,
                                            Len(trimmedLine)),
                  thoughtType |-> ThoughtTypeOf(trimmedLine, numberMatch.number),
                  thoughtNumber |-> numberMatch.number]
            ELSE [st EXCEPT !.currentThought = @ \o <<" ">> \o trimmedLine])

\* Lines 104-151: the thoughts parsed from the completion; the last one is a
\* conclusion when another thought precedes it.
ParseThoughts(thinking) ==
  LET st == ParseLines(Split(thinking),
                       [thoughts |-> <<>>, currentThought |-> <<>>,
                        thoughtType |-> "standard", thoughtNumber |-> 0])
  IN IF st.currentThought # <<>>
     THEN Append(st.thoughts,
                 [number |-> st.thoughtNumber,
                  content |-> Trim(st.currentThought),
                  type |-> IF Len(st.thoughts) > 0 THEN "conclusion"
                           ELSE "standard"])
     ELSE st.thoughts

\* Lines 157-163: the five patterns, as sequences of literal lexemes (lit),
\* optional ones (opt) and the captured name ([a-zA-Z0-9_-]+).
ToolPatterns ==
  LET lit(t) == [kind |-> "lit", toks |-> {t}]
      opt(t) == [kind |-> "opt", toks |-> {t}]
      name == [kind |-> "name", toks |-> {}]
      quote == [kind |-> "optOne", toks |-> {<<"\"">>}]
  IN << <<lit(<<"use", " ">>), opt(<<"the", " ">>), quote, name, quote,
          lit(<<" ", "tool">>)>>,
        <<opt(<<"the", " ">>), quote, name, quote,
          lit(<<" ", "tool", " ", "would", " ", "be", " ", "best">>)>>,
        <<opt(<<"the", " ">>), quote, name, quote,
          lit(<<" ", "would", " ", "be", " ", "the", " ", "appropriate", " ",
                "tool">>)>>,
        <<[kind |-> "lit",
           toks |-> {<<w>> : w \in {"recommended", "suggest", "choose",
                                     "select", "appropriate", "best"}}],
          lit(<<" ", "tool", " ", "is", " ">>), quote, name, quote>>,
        <<lit(<<"tool", ":", " ">>), quote, name, quote>> >>

\* The names a pattern captures when matched at the beginning of s, ignoring
\* case, in the order in which the regular expression tries them: an
\* optional part is tried first with the part, then without it.
RECURSIVE MatchHere(_, _, _)
MatchHere(pattern, s, captured) ==
  IF pattern = <<>> THEN <<captured>>
  ELSE LET e == Head(pattern)
           isName(t) == t \notin {" ", "\n", ".", ":", "\""}
           prefixes == {t \in e.toks :
                          /\ Len(t) <= Len(s)
                          /\ ToLowerCase(SubSeq(s, 1, Len(t))) = t}
           with == IF prefixes = {} THEN <<>>
                   ELSE LET t == CHOOSE x \in prefixes : TRUE
                        IN MatchHere(Tail(pattern),
                                     SubSeq(s, Len(t) + 1, Len(s)), captured)
       IN IF e.kind = "lit" THEN with
          ELSE IF e.kind = "name"
               THEN IF s # <<>> /\ isName(Head(s))
                    THEN MatchHere(Tail(pattern), Tail(s), Head(s))
                    ELSE <<>>
          ELSE with \o MatchHere(Tail(pattern), s, captured)

\* Lines 165-178: the name captured by the first pattern that matches the
\* conclusion, lower-cased, with the three fixes; "" when none matches.
SelectTool(content) ==
  LET starts(pattern) ==
        {i \in 1..(Len(content) + 1) :
           MatchHere(pattern, SubSeq(content, i, Len(content)), "") # <<>>}
      match(pattern) ==
        IF starts(pattern) = {} THEN ""
        ELSE LET i == CHOOSE j \in starts(pattern) :
                        \A k \in starts(pattern) : j <= k
             IN MatchHere(pattern, SubSeq(content, i, Len(content)), "")[1]
      matching == {n \in 1..Len(ToolPatterns) : match(ToolPatterns[n]) # ""}
      selectedTool ==
        IF matching = {} THEN ""
        ELSE ToLowerChar(match(ToolPatterns[
               CHOOSE n \in matching : \A m \in matching : n <= m]))
  IN IF selectedTool = "research" THEN "research-manager"
     ELSE IF selectedTool = "git" THEN "git-summary"
     ELSE IF selectedTool \in {"acrs", "context"} THEN "acrs_process"
     ELSE selectedTool

\* Lines 191-206: the catch clause: one fallback thought is added and the
\* result names research-manager.
SequentialThinkingCaught(S, p) ==
  Finish([S EXCEPT !.calls[p].thoughts =
                      Append(@, [number |-> 1,
                                 content |-> <<"Error in generating thoughts: ",
                                               S.calls[p].error,
                                               ". Defaulting to research-manager tool.">>,
                                 type |-> "conclusion"]),
                   !.calls[p].selectedTool = "research-manager",
                   !.calls[p].explanation =
                      <<"Error occurred in sequential thinking process. Defaulting to research-manager.">>],
         p, "done")

\* A variant of lines 180-184 without the fallback to research-manager.
SequentialThinkingRestNoFallback(S, p, thinking) ==
  IF thinking = NoContent \/ ParseThoughts(thinking) = <<>>
  THEN SequentialThinkingCaught([S EXCEPT !.calls[p].thinking = thinking,
                                          !.calls[p].error = "TypeError"], p)
  ELSE LET thoughts == ParseThoughts(thinking)
           conclusions == {i \in 1..Len(thoughts) :
                             thoughts[i].type = "conclusion"}
           conclusion ==
             IF conclusions = {} THEN thoughts[Len(thoughts)]
             ELSE thoughts[CHOOSE i \in conclusions :
                             \A j \in conclusions : i <= j]
       IN Finish([S EXCEPT !.calls[p].thinking = thinking,
                           !.calls[p].thoughts = thoughts,
                           !.calls[p].selectedTool =
                              SelectTool(conclusion.content),
                           !.calls[p].explanation = conclusion.content],
                 p, "done")

\* Lines 100-190: the completion arrived.  Reading a missing content (line
\* 100-104) and reading the content of a conclusion that does not exist
\* (line 166, no thought having been parsed) throw a TypeError inside the
\* try block.
SequentialThinkingRest(S, p, thinking) ==
  IF thinking = NoContent \/ ParseThoughts(thinking) = <<>>
  THEN SequentialThinkingCaught([S EXCEPT !.calls[p].thinking = thinking,
                                          !.calls[p].error = "TypeError"], p)
  ELSE LET thoughts == ParseThoughts(thinking)
           conclusions == {i \in 1..Len(thoughts) :
                             thoughts[i].type = "conclusion"}
           conclusion ==
             IF conclusions = {} THEN thoughts[Len(thoughts)]
             ELSE thoughts[CHOOSE i \in conclusions :
                             \A j \in conclusions : i <= j]
           selectedTool == SelectTool(conclusion.content)
       IN Finish([S EXCEPT !.calls[p].thinking = thinking,
                           !.calls[p].thoughts = thoughts,
                           !.calls[p].selectedTool =
                              IF selectedTool = "" THEN "research-manager"
                              ELSE selectedTool,
                           !.calls[p].explanation =
                              IF selectedTool = ""
                              THEN conclusion.content
                                     \o <<"\n", "(No specific tool was clearly identified, defaulting to research-manager)">>
                              ELSE conclusion.content],
                 p, "done")

\* Lines 73-77: one line per context item, joined by line breaks.
RECURSIVE ContextInfo(_)
ContextInfo(contextItems) ==
  IF contextItems = <<>> THEN <<>>
  ELSE <<"[", Head(contextItems).category, "]", ": ">>
         \o Substring0(Head(contextItems).content, 200) \o <<"...">>
         \o (IF Len(contextItems) > 1
             THEN <<"\n">> \o ContextInfo(Tail(contextItems)) ELSE <<>>)

\* Lines 70-99: once enhancePrompt returned, the prompt is built and the LLM
\* is called inside the try block; a call that throws before the request is
\* made ends in the catch clause.
GenerateSequentialThinking(S, p) ==
  LET c == S.calls[p]
      enhancedRequest ==
        IF Len(c.contextItems) > 0
        THEN c.text \o <<"\n", "\n", "RELEVANT CONTEXT:", "\n">>
               \o ContextInfo(c.contextItems)
        ELSE c.text
      S1 == PerformDirectLlmCall(
              [S EXCEPT !.calls[p].prompt =
                           <<"REQUEST: ">> \o enhancedRequest
                             \o <<"\n", "\n", "Think about ... THOUGHTS:">>], p)
  IN IF S1.calls[p].pc = "failed" THEN SequentialThinkingCaught(S1, p)
     ELSE S1

(***************************************************************************)
(* The tools (lines 370-497).                                              *)
(***************************************************************************)
\* A variant of lines 385-391 that restamps the entry it serves.
ProcessLookupRestamps(S, p) ==
  LET cacheKey == Trim(S.calls[p].enhancedPrompt)
      callLlm(T) == PerformDirectLlmCall(T, p)
  IN IF Has(S.llmResponseCache, cacheKey)
     THEN LET cached == S.llmResponseCache[cacheKey]
          IN IF IsLive(S, cached.timestamp)
             THEN Finish([S EXCEPT !.llmResponseCache[cacheKey].timestamp = S.now,
                                   !.calls[p].response = cached.response,
                                   !.calls[p].fromCache = TRUE], p, "done")
             ELSE callLlm([S EXCEPT !.llmResponseCache = MapDelete(@, cacheKey),
                                    !.calls[p].evictedResponse = TRUE])
     ELSE callLlm(S)

\* Lines 379-402 of acrs_process: the response cache is looked up; on a miss
\* the LLM is called.
ProcessLookup(S, p) ==
  LET cacheKey == Trim(S.calls[p].enhancedPrompt)
      callLlm(T) == PerformDirectLlmCall(T, p)
  IN IF Has(S.llmResponseCache, cacheKey)
     THEN LET cached == S.llmResponseCache[cacheKey]
          IN IF IsLive(S, cached.timestamp)
             THEN Finish([S EXCEPT !.calls[p].response = cached.response,
                                   !.calls[p].fromCache = TRUE], p, "done")
             ELSE callLlm([S EXCEPT !.llmResponseCache = MapDelete(@, cacheKey),
                                    !.calls[p].evictedResponse = TRUE])
     ELSE callLlm(S)

\* A variant of lines 404-414 that returns the completion without caching it.
ProcessStoreNotCached(S, p, response) ==
  Finish([S EXCEPT !.calls[p].response = response,
                   !.calls[p].fromCache = FALSE], p, "done")

\* Lines 404-414 of acrs_process: the completion is cached and returned.
ProcessStore(S, p, response) ==
  Finish([S EXCEPT !.llmResponseCache =
                     MapSet(@, Trim(S.calls[p].enhancedPrompt),
                            [response |-> response, timestamp |-> S.now]),
                   !.calls[p].response = response,
                   !.calls[p].fromCache = FALSE], p, "done")

\* What follows searchMemory in the tool that called it.
AfterSearchMemory(S, p) ==
  LET op == S.calls[p].op
  IN IF op = "retrieve" THEN Finish(S, p, "done")
     ELSE IF op = "enhance"
          THEN Finish(EnhanceReturn(EnhancePromptRest(S, p), p), p, "done")
     ELSE IF op = "think"
          THEN GenerateSequentialThinking(EnhancePromptRest(S, p), p)
     ELSE ProcessLookup(EnhancePromptRest(S, p), p)

\* History: the embed of call p handed its caller a vector.
NoteReturned(S, p) ==
  LET cacheKey == Normalize(S.calls[p].embedText)
      seen == IF Has(S.ghost.returned, cacheKey) THEN S.ghost.returned[cacheKey]
              ELSE {}
  IN IF ~S.calls[p].embedOk THEN S
     ELSE [S EXCEPT !.ghost.returned =
                       MapSet(@, cacheKey, seen \cup {S.calls[p].embedding})]

\* A variant in which searchMemory has no catch clause around the embed: a
\* failed embed fails the tool call.
ContinueCallUncaught(S, p, indexOk) ==
  LET op == S.calls[p].op
      S1 == NoteReturned(S, p)
  IN IF ~S1.calls[p].embedOk THEN Finish(S1, p, "failed")
     ELSE IF op \in {"add", "feedback"} THEN AddMemoryItemRest(S1, p, indexOk)
     ELSE AfterSearchMemory(SearchMemoryRest(S1, p, indexOk), p)

\* The continuation of call p once the embed it awaits settled.
ContinueCall(S, p, indexOk) ==
  LET op == S.calls[p].op
      S1 == NoteReturned(S, p)
  IN IF op \in {"add", "feedback"}
     THEN IF ~S1.calls[p].embedOk THEN Finish(S1, p, "failed")
          ELSE AddMemoryItemRest(S1, p, indexOk)
     ELSE AfterSearchMemory(SearchMemoryRest(S1, p, indexOk), p)

\* Lines 166-171: the continuation of a call that awaited the initialization:
\* a failed initialization fails the embed; otherwise the model is invoked
\* (a null model throws, caught and rethrown at lines 178-181).
ContinueAfterInit(S, p, indexOk) ==
  IF S.calls[p].initOk /\ S.embeddingModel
  THEN StartInference(S, p, -1)
  ELSE ContinueCall(InferenceThrew(S, p), p, indexOk)

\* Line 464: the text stored for a feedback.
FeedbackContent(requestText) ==
  <<"Feedback on request: ", "\"">> \o Substring0(requestText, 100)
    \o <<"...", "\"">>

\* A variant of line 465 that stores a feedback under general.
FeedbackCategoryGeneral == "general"

\* Line 465: the category a feedback is stored under.
FeedbackCategory == "metadata"

\* Lines 192-198: addMemoryItem up to its first await.
AddMemoryItem(S, p) ==
  GenerateEmbedding(
    [S EXCEPT !.calls[p].category = EffectiveCategory(S.calls[p].inputCategory)],
    p, -1)

\* Line 484 of acrs_add_memory: z.enum(MEMORY_CATEGORIES) accepts the
\* categories of the closed set only.
SchemaAccepts(category) == category \in CategorySet

\* A field that is missing from the input of a tool; no text has this value.
Undefined == <<"undefined">>

\* Lines 482-486: the fields of an acrs_add_memory input its schema rejects,
\* in the order of the schema: content must be a string, category one of the
\* closed set.
SchemaIssues(content, category) ==
  (IF content = Undefined THEN <<"content">> ELSE <<>>)
    \o (IF SchemaAccepts(category) THEN <<>> ELSE <<"category">>)

\* A variant of lines 83-87 that reports the first issue only.
ExecuteAddMemoryFirstIssue(S, p) ==
  LET S1 == [S EXCEPT !.calls[p].tool = "acrs_add_memory"]
      issues == SchemaIssues(S1.calls[p].text, S1.calls[p].inputCategory)
  IN IF issues = <<>> THEN AddMemoryItem(S1, p)
     ELSE Finish([S1 EXCEPT !.calls[p].error = "Input validation failed",
                            !.calls[p].errorFields = <<Head(issues)>>],
                 p, "failed")

\* executeTool (tools/index.ts lines 72-92) for acrs_add_memory: the input is
\* parsed with the schema of the tool; a ZodError is rethrown as "Input
\* validation failed" followed by one `path: message` for each issue, and
\* execute (lines 487-488) is not run.
ExecuteAddMemory(S, p) ==
  LET S1 == [S EXCEPT !.calls[p].tool = "acrs_add_memory"]
      issues == SchemaIssues(S1.calls[p].text, S1.calls[p].inputCategory)
  IN IF issues = <<>> THEN AddMemoryItem(S1, p)
     ELSE Finish([S1 EXCEPT !.calls[p].error = "Input validation failed",
                            !.calls[p].errorFields = issues],
                 p, "failed")

\* The names under which registerTool was called (contextual-retrieval.ts and
\* sequential-thinking.ts).
ToolRegistry ==
  {"acrs_process", "acrs_enhance_prompt", "acrs_get_metrics",
   "acrs_submit_feedback", "acrs_add_memory", "acrs_test_categories",
   "sequential-thinking"}

\* Tool names handed to executeTool besides the registered ones.
UnregisteredNames == {"acrs_forget"}

\* executeTool (tools/index.ts lines 66-70) for a name getTool does not find.
ExecuteUnregistered(S, p, name) ==
  Finish([S EXCEPT !.calls[p].tool = name, !.calls[p].error = "not found"],
         p, "failed")

\* reduce((acc, val) => acc + val, 0)
RECURSIVE Sum(_)
Sum(list) == IF list = <<>> THEN 0 ELSE Head(list) + Sum(Tail(list))

\* A variant of lines 348-350 that divides the hits by the query count.
GetMetricsSnapshotPerQuery(S) ==
  [totalQueries |-> S.metrics.queryCount,
   cacheHits |-> S.metrics.cacheHits,
   cacheQueries |-> S.metrics.cacheQueries,
   averageRetrievalTime |->
     IF Len(S.metrics.retrievalTimes) > 0
     THEN Quotient(Sum(S.metrics.retrievalTimes), Len(S.metrics.retrievalTimes))
     ELSE Zero,
   cacheHitRate |->
     IF S.metrics.queryCount > 0
     THEN Quotient(S.metrics.cacheHits, S.metrics.queryCount)
     ELSE Zero,
   categoryDistribution |-> S.metrics.categoryCounts]

\* Lines 343-365: getMetrics.  cacheHits and cacheQueries are the counters
\* the hit rate was computed from.
GetMetricsSnapshot(S) ==
  [totalQueries |-> S.metrics.queryCount,
   cacheHits |-> S.metrics.cacheHits,
   cacheQueries |-> S.metrics.cacheQueries,
   averageRetrievalTime |->
     IF Len(S.metrics.retrievalTimes) > 0
     THEN Quotient(Sum(S.metrics.retrievalTimes), Len(S.metrics.retrievalTimes))
     ELSE Zero,
   cacheHitRate |->
     IF S.metrics.cacheQueries > 0
     THEN Quotient(S.metrics.cacheHits, S.metrics.cacheQueries)
     ELSE Zero,
   categoryDistribution |-> S.metrics.categoryCounts]

\* A variant of line 363 that returns the counter object itself instead of
\* a copy of it: the caller sees the counters as they are now.
CategoryDistributionShared(S, p) == S.metrics.categoryCounts

\* Line 363: the categoryDistribution call p was handed, a copy
\* ({ ...metrics.categoryCounts }) made when getMetrics ran.
CategoryDistribution(S, p) == S.calls[p].snapshot.categoryDistribution

\* A tool call arrives.
Arrive(S, p, op, text, embedText, inputCategory, maxResults) ==
  [S EXCEPT !.calls[p] =
     [IdleCall EXCEPT !.op = op, !.pc = "running", !.text = text,
                      !.embedText = embedText, !.inputCategory = inputCategory,
                      !.category = inputCategory, !.maxResults = maxResults,
                      !.startTime = S.now, !.stored = S.uuidCounter,
                      !.seenReturned =
                         IF Has(S.ghost.returned, Normalize(embedText))
                         THEN S.ghost.returned[Normalize(embedText)] ELSE {}]]

(***************************************************************************)
(* The state after the module is loaded (lines 73-99 and 536).             *)
(***************************************************************************)
ModuleLoaded ==
  [embeddingCache |-> EmptyMap, retrievalCache |-> EmptyMap,
   llmResponseCache |-> EmptyMap,
   vectorStores |-> [c \in CategorySet |-> <<>>],
   memoryItems |-> [c \in CategorySet |-> <<>>],
   metrics |-> [queryCount |-> 0, retrievalTimes |-> <<>>, cacheHits |-> 0,
                cacheQueries |-> 0, contextItemsUsed |-> <<>>,
                categoryCounts |-> [c \in CategorySet |-> 0]],
   embeddingModel |-> FALSE, isEmbeddingModelLoading |-> FALSE,
   embeddingModelQueue |-> <<>>, inits |-> [o \in Owners |-> NoInit],
   calls |-> [p \in Calls |-> IdleCall], microtasks |-> <<>>, now |-> 0,
   ticks |-> 0, uuidCounter |-> 0,
   ghost |-> [embeddingCachedAt |-> EmptyMap, returned |-> EmptyMap,
              lastRetrieve |-> EmptyMap],
   scope |-> [contents |-> {}, queries |-> {}, categories |-> {},
              maxResults |-> {}, indexOk |-> {TRUE}, maxCalls |-> MaxCalls,
              apiKey |-> TRUE, httpFailures |-> {Timeout}]]

Is(S) ==
  /\ embeddingCache = S.embeddingCache
  /\ retrievalCache = S.retrievalCache
  /\ llmResponseCache = S.llmResponseCache
  /\ vectorStores = S.vectorStores
  /\ memoryItems = S.memoryItems
  /\ metrics = S.metrics
  /\ embeddingModel = S.embeddingModel
  /\ isEmbeddingModelLoading = S.isEmbeddingModelLoading
  /\ embeddingModelQueue = S.embeddingModelQueue
  /\ inits = S.inits
  /\ calls = S.calls
  /\ microtasks = S.microtasks
  /\ now = S.now
  /\ ticks = S.ticks
  /\ uuidCounter = S.uuidCounter
  /\ ghost = S.ghost
  /\ scope = S.scope

\* Line 536: the model is initialized in the background.  The callers
\* draw their inputs from the sets of sc.
InitWith(sc) ==
  Is(InitializeEmbeddingModel([ModuleLoaded EXCEPT !.scope = sc], Background))

(***************************************************************************)
(* Actions.                                                                *)
(***************************************************************************)
\* No continuation is ready: the event loop takes the next external event.
Quiet == microtasks = <<>>

\* Call p is the next to arrive.
NextCall(p) ==
  /\ Quiet
  /\ p <= scope.maxCalls
  /\ calls[p].pc = "idle"
  /\ \A q \in Calls : q < p => calls[q].pc # "idle"

\* addMemoryItem(content, category), as acrs_add_memory calls it.
AddMemory(p) ==
  /\ NextCall(p)
  /\ \E content \in scope.contents, category \in scope.categories :
       Becomes(AddMemoryItem(
                 Arrive(Cur, p, "add", content, content, category, 0), p))

\* executeTool("acrs_add_memory", {content, category}).
AddMemoryTool(p) ==
  /\ NextCall(p)
  /\ \E content \in scope.contents, category \in scope.categories :
       Becomes(ExecuteAddMemory(
                 Arrive(Cur, p, "add", content, content, category, 0), p))

\* executeTool(name, input) with a name that is not registered.
UnknownTool(p) ==
  /\ NextCall(p)
  /\ \E name \in UnregisteredNames \ ToolRegistry :
       Becomes(ExecuteUnregistered(
                 Arrive(Cur, p, "unknown", <<>>, <<>>, "", 0), p, name))

\* acrs_submit_feedback (lines 461-473).
SubmitFeedback(p) ==
  /\ NextCall(p)
  /\ \E requestText \in scope.queries :
       Becomes(AddMemoryItem(
                 Arrive(Cur, p, "feedback", requestText,
                        FeedbackContent(requestText), FeedbackCategory, 0),
                 p))

\* searchMemory(query, maxResults).
Retrieve(p) ==
  /\ NextCall(p)
  /\ \E query \in scope.queries, maxResults \in scope.maxResults :
       Becomes(SearchMemory(
                 Arrive(Cur, p, "retrieve", query, query, "", maxResults), p))

\* acrs_enhance_prompt (lines 427-435).
EnhancePrompt(p) ==
  /\ NextCall(p)
  /\ \E prompt \in scope.queries :
       Becomes(SearchMemory(
                 Arrive(Cur, p, "enhance", prompt, prompt, "", MAX_CONTEXT_ITEMS),
                 p))

\* acrs_process (lines 376-415).
ProcessRequest(p) ==
  /\ NextCall(p)
  /\ \E requestText \in scope.queries :
       Becomes(SearchMemory(
                 Arrive(Cur, p, "process", requestText, requestText, "",
                        MAX_CONTEXT_ITEMS), p))

\* acrs_get_metrics (lines 445-447).
GetMetrics(p) ==
  /\ NextCall(p)
  /\ Becomes(Finish([Arrive(Cur, p, "metrics", <<>>, <<>>, "", 0)
                       EXCEPT !.calls[p].snapshot = GetMetricsSnapshot(Cur)],
                    p, "done"))

\* pipeline() resolves for the run of owner o.
PipelineResolves(o) ==
  /\ Quiet
  /\ inits[o].pc = "pipeline"
  /\ Becomes(ModelLoaded(Cur, o))

\* pipeline() rejects for the run of owner o.
PipelineRejects(o) ==
  /\ Quiet
  /\ inits[o].pc = "pipeline"
  /\ Becomes(ModelLoadFailed(Cur, o))

\* The inference a call awaits returns.
InferenceResolves(p) ==
  /\ Quiet
  /\ calls[p].pc = "inferring"
  /\ Becomes(Resume(InferenceReturned(Cur, p), p, "resume"))

\* The inference a call awaits throws.
InferenceRejects(p) ==
  /\ Quiet
  /\ calls[p].pc = "inferring"
  /\ Becomes(Resume(InferenceThrew(Cur, p), p, "resume"))

\* The inference of a drained request returns to the initialization.
DrainInferenceResolves(o) ==
  /\ Quiet
  /\ inits[o].pc = "drainInfer"
  /\ Becomes(Schedule([InferenceReturned(Cur, inits[o].req)
                         EXCEPT !.inits[o].pc = "drainSettled"], <<"init", o>>))

\* The inference of a drained request throws.
DrainInferenceRejects(o) ==
  /\ Quiet
  /\ inits[o].pc = "drainInfer"
  /\ Becomes(Schedule([InferenceThrew(Cur, inits[o].req)
                         EXCEPT !.inits[o].pc = "drainSettled"], <<"init", o>>))

\* performDirectLlmCall resolves with a completion.
LlmResolves(p) ==
  /\ Quiet
  /\ calls[p].pc = "llm"
  /\ \E response \in Responses : Becomes(ProcessStore(Cur, p, response))

\* A variant in which acrs_process calls the LLM a second time after a
\* failure before it gives up.
LlmFailedRetried(S, p) ==
  IF S.calls[p].llmCalls < 2 THEN [S EXCEPT !.calls[p].llmCalls = @ + 1]
  ELSE Finish(S, p, "failed")

\* Lines 397-401 of acrs_process with lines 130-152 of performDirectLlmCall:
\* the error is rethrown, nothing catches it and the tool call fails.
LlmFailed(S, p) == Finish(S, p, "failed")

\* axios.post rejects: performDirectLlmCall throws the classified error,
\* which propagates to the caller.
LlmRejects(p) ==
  /\ Quiet
  /\ calls[p].pc = "llm"
  /\ \E failure \in scope.httpFailures :
       Becomes(LlmFailed([Cur EXCEPT !.calls[p].httpFailure = failure.kind,
                                     !.calls[p].error = ClassifyLlmError(failure)],
                         p))

\* sequential-thinking (sequential-thinking.ts lines 214-223): the request
\* is handed to enhancePrompt first.
SequentialThinking(p) ==
  /\ NextCall(p)
  /\ \E request \in scope.queries :
       Becomes(SearchMemory(
                 Arrive(Cur, p, "think", request, request, "",
                        MAX_CONTEXT_ITEMS), p))

\* performDirectLlmCall resolves with a completion for the thinking prompt.
ThinkingResolves(p) ==
  /\ Quiet
  /\ calls[p].op = "think" /\ calls[p].pc = "llm"
  /\ \E thinking \in Thinkings :
       Becomes(SequentialThinkingRest(Cur, p, thinking))

\* axios.post rejects: performDirectLlmCall throws the classified error
\* inside the try block of generateSequentialThinking.
ThinkingRejects(p) ==
  /\ Quiet
  /\ calls[p].op = "think" /\ calls[p].pc = "llm"
  /\ \E failure \in scope.httpFailures :
       Becomes(SequentialThinkingCaught(
                 [Cur EXCEPT !.calls[p].httpFailure = failure.kind,
                             !.calls[p].error = ClassifyLlmError(failure)], p))

\* The first continuation of the microtask queue runs.
RunMicrotask ==
  /\ microtasks # <<>>
  /\ \E indexOk \in scope.indexOk :
       LET job == Head(microtasks)
           S == [Cur EXCEPT !.microtasks = Tail(@)]
       IN Becomes(
            IF job[1] = "init" THEN DrainSettled(S, job[2])
            ELSE IF S.calls[job[2]].pc = "resumeInit"
                 THEN ContinueAfterInit(S, job[2], indexOk)
            ELSE IF S.calls[job[2]].pc = "searched"
                 THEN AfterSearchMemory(S, job[2])
            ELSE ContinueCall(S, job[2], indexOk))

\* The clock advances.
Tick ==
  /\ Quiet
  /\ ticks < MaxTicks
  /\ Becomes([Cur EXCEPT !.now = @ + TickMs, !.ticks = @ + 1])

(***************************************************************************)
(* Specifications.  All run the same program; they differ in the           *)
(* operations the callers use and in the inputs they draw.                 *)
(***************************************************************************)
\* The loader and the drain of the queue settle.
GatewaySettles ==
  \/ \E o \in Owners : PipelineResolves(o)
  \/ \E o \in Owners : PipelineRejects(o)
  \/ \E o \in Owners : DrainInferenceResolves(o)
  \/ \E o \in Owners : DrainInferenceRejects(o)

\* The inference of a call settles; a ready continuation runs.
CallSettles ==
  \/ \E p \in Calls : InferenceResolves(p)
  \/ \E p \in Calls : InferenceRejects(p)
  \/ RunMicrotask

\* The state once the background initialization has loaded the model, no
\* call having arrived yet.
InitLoadedWith(sc) ==
  Is(ModelLoaded(
       InitializeEmbeddingModel([ModuleLoaded EXCEPT !.scope = sc], Background),
       Background))

\* Every operation, on one text.
Init ==
  InitWith([contents |-> {<<"a">>}, queries |-> {<<"a">>},
            categories |-> {"bogus"}, maxResults |-> {1}, indexOk |-> BOOLEAN, maxCalls |-> MaxCalls,
                  apiKey |-> TRUE, httpFailures |-> {Timeout}])

Next ==
  \/ \E p \in Calls : AddMemory(p)
  \/ \E p \in Calls : SubmitFeedback(p)
  \/ \E p \in Calls : Retrieve(p)
  \/ \E p \in Calls : EnhancePrompt(p)
  \/ \E p \in Calls : ProcessRequest(p)
  \/ \E p \in Calls : GetMetrics(p)
  \/ \E p \in Calls : LlmResolves(p)
  \/ \E p \in Calls : LlmRejects(p)
  \/ GatewaySettles
  \/ CallSettles

Spec == Init /\ [][Next]_vars

\* The embedding gateway under concurrent embed requests.
InitGateway ==
  InitWith([contents |-> Texts, queries |-> {}, categories |-> {"code"},
            maxResults |-> {}, indexOk |-> {TRUE}, maxCalls |-> MaxCalls,
                  apiKey |-> TRUE, httpFailures |-> {Timeout}])

NextGateway ==
  \/ \E p \in Calls : AddMemory(p)
  \/ GatewaySettles
  \/ CallSettles

SpecGateway == InitGateway /\ [][NextGateway]_vars

\* The promises of the collaborators settle and ready continuations run.
InitFair ==
  InitWith([contents |-> {<<"a">>}, queries |-> {}, categories |-> {"code"},
            maxResults |-> {}, indexOk |-> {TRUE}, maxCalls |-> MaxCalls,
                  apiKey |-> TRUE, httpFailures |-> {Timeout}])

FairGateway ==
  /\ InitFair
  /\ [][NextGateway]_vars
  /\ WF_vars(GatewaySettles)
  /\ WF_vars(CallSettles)

\* The retrieval cache and the embedding cache as time passes, the model
\* being loaded.
InitCaches ==
  InitLoadedWith([contents |-> {<<" ", "A">>}, queries |-> {<<"b">>},
                  categories |-> {"code"}, maxResults |-> InputMaxResults,
                  indexOk |-> {TRUE}, maxCalls |-> MaxCalls,
                  apiKey |-> TRUE, httpFailures |-> {Timeout}])

NextCaches ==
  \/ \E p \in Calls : AddMemory(p)
  \/ \E p \in Calls : Retrieve(p)
  \/ CallSettles
  \/ Tick

SpecCaches == InitCaches /\ [][NextCaches]_vars

\* The response cache as time passes, the model being loaded.
InitResponses ==
  InitLoadedWith([contents |-> {<<" ", "A">>}, queries |-> {<<"b">>},
                  categories |-> {"code"}, maxResults |-> {}, indexOk |-> {TRUE}, maxCalls |-> MaxCalls,
                  apiKey |-> TRUE, httpFailures |-> {Timeout}])

NextResponses ==
  \/ \E p \in Calls : AddMemory(p)
  \/ \E p \in Calls : ProcessRequest(p)
  \/ \E p \in Calls : LlmResolves(p)
  \/ \E p \in Calls : LlmRejects(p)
  \/ CallSettles
  \/ Tick

SpecResponses == InitResponses /\ [][NextResponses]_vars

\* Ranking: items at, below and above the threshold in two categories of
\* different weight, retrieved with two limits, the model being loaded.
InitRanking ==
  InitLoadedWith([contents |-> {<<"c">>, <<"b">>}, queries |-> {<<"a">>},
                  categories |-> {"general", "code"},
                  maxResults |-> InputMaxResults, indexOk |-> {TRUE},
                  maxCalls |-> MaxRankingCalls,
                  apiKey |-> TRUE, httpFailures |-> {Timeout}])

NextRanking ==
  \/ \E p \in Calls : AddMemory(p)
  \/ \E p \in Calls : Retrieve(p)
  \/ \E p \in Calls : InferenceResolves(p)
  \/ RunMicrotask

SpecRanking == InitRanking /\ [][NextRanking]_vars

\* Merging: items of raw similarity 0.75 and 0.9 in two categories of weight
\* 1.0 and 1.2, so that effective scores order the items otherwise than raw
\* similarity does and two of them are equal, the model being loaded.
InitMerge ==
  InitLoadedWith([contents |-> {<<"c">>, <<"d">>}, queries |-> {<<"a">>},
                  categories |-> {"general", "concepts"},
                  maxResults |-> InputMaxResults, indexOk |-> {TRUE},
                  maxCalls |-> MaxRankingCalls,
                  apiKey |-> TRUE, httpFailures |-> {Timeout}])

SpecMerge == InitMerge /\ [][NextRanking]_vars

\* Tools called through executeTool: add-memory with and without content and
\* with categories inside and outside the closed set, and a name that is not
\* registered.
InitTools ==
  InitWith([contents |-> {<<"a">>, Undefined}, queries |-> {},
            categories |-> InputCategories, maxResults |-> {},
            indexOk |-> BOOLEAN, maxCalls |-> MaxCalls,
                  apiKey |-> TRUE, httpFailures |-> {Timeout}])

NextTools ==
  \/ \E p \in Calls : AddMemoryTool(p)
  \/ \E p \in Calls : UnknownTool(p)
  \/ GatewaySettles
  \/ CallSettles

SpecTools == InitTools /\ [][NextTools]_vars

\* The metrics as items are inserted and queries retrieved while time
\* passes, the model being loaded.
InitMetrics ==
  InitLoadedWith([contents |-> {<<"a">>}, queries |-> {<<"a">>},
                  categories |-> {"code"}, maxResults |-> {1},
                  indexOk |-> BOOLEAN, maxCalls |-> MaxCalls,
                  apiKey |-> TRUE, httpFailures |-> {Timeout}])

NextMetrics ==
  \/ \E p \in Calls : AddMemory(p)
  \/ \E p \in Calls : SubmitFeedback(p)
  \/ \E p \in Calls : Retrieve(p)
  \/ \E p \in Calls : GetMetrics(p)
  \/ CallSettles
  \/ Tick

SpecMetrics == InitMetrics /\ [][NextMetrics]_vars

\* sequential-thinking over a store that add-memory fills, with every
\* completion and failure of the LLM call, with and without an API key, and
\* with failing embeds and index searches; the model is loaded.
InitThinking ==
  \E key \in BOOLEAN :
    InitLoadedWith([contents |-> {<<"a">>}, queries |-> {<<"a">>},
                    categories |-> {"code"}, maxResults |-> {},
                    indexOk |-> BOOLEAN, maxCalls |-> MaxThinkingCalls,
                    apiKey |-> key, httpFailures |-> HttpFailures])

NextThinking ==
  \/ \E p \in Calls : AddMemory(p)
  \/ \E p \in Calls : SequentialThinking(p)
  \/ \E p \in Calls : ThinkingResolves(p)
  \/ \E p \in Calls : ThinkingRejects(p)
  \/ CallSettles

SpecThinking == InitThinking /\ [][NextThinking]_vars

\* The LLM call of process-request with every failure of the HTTP call, with
\* and without an API key, the model being loaded.
InitLlm ==
  \E key \in BOOLEAN :
    InitLoadedWith([contents |-> {}, queries |-> {<<"b">>}, categories |-> {},
                    maxResults |-> {}, indexOk |-> {TRUE}, maxCalls |-> MaxCalls,
                    apiKey |-> key, httpFailures |-> HttpFailures])

NextLlm ==
  \/ \E p \in Calls : ProcessRequest(p)
  \/ \E p \in Calls : LlmResolves(p)
  \/ \E p \in Calls : LlmRejects(p)
  \/ CallSettles

SpecLlm == InitLlm /\ [][NextLlm]_vars

(***************************************************************************)
(* Properties.                                                             *)
(***************************************************************************)
\* Call p arrives in this step.
Arrives(p) == calls[p].pc = "idle" /\ calls'[p].pc # "idle"

\* The runs of initializeEmbeddingModel that have not ended.
InitRuns == {o \in Owners : inits[o].pc # "none"}

\* The text call p embeds is not in the embedding cache when p arrives.
ArrivesUncached(p) ==
  /\ Arrives(p)
  /\ calls'[p].op \in {"add", "feedback"}
  /\ ~Has(embeddingCache, Normalize(calls'[p].embedText))

\* C1: in every category the vector index and the item list have the same
\* length, and the vector at position i is the embedding of the item at
\* position i.
C1_ParallelArrays ==
  \A c \in CategorySet :
    /\ Len(vectorStores[c]) = Len(memoryItems[c])
    /\ \A i \in 1..Len(memoryItems[c]) :
         vectorStores[c][i] = memoryItems[c][i].embedding

\* Two categories hold items, an insert was refused by the index and a
\* search has gone over the stores.
C1_Witness ==
  /\ Len(memoryItems["general"]) >= 1
  /\ Len(memoryItems["metadata"]) >= 1
  /\ \E p \in Calls : calls[p].op \in {"add", "feedback"} /\ calls[p].embedOk
                        /\ calls[p].pc = "failed"

\* C2: at most one run of the model initialization is in flight, and an embed
\* request that arrives for an uncached text while the model is not loaded
\* and a run is under way is queued without starting a second run.
C2_SingleInitialization ==
  /\ [](Cardinality(InitRuns) <= 1)
  /\ [][\A p \in Calls :
          (ArrivesUncached(p) /\ ~embeddingModel /\ InitRuns # {})
            => /\ embeddingModelQueue' = Append(embeddingModelQueue, p)
               /\ calls'[p].pc = "queued"
               /\ inits' = inits]_vars

\* Two requests wait in the queue of the run started at load time.
C2_Witness ==
  /\ inits[Background].pc = "pipeline"
  /\ Len(embeddingModelQueue) >= 2
  /\ \A i \in 1..Len(embeddingModelQueue) :
       calls[embeddingModelQueue[i]].pc = "queued"

\* C3: the queue is empty whenever no initialization is in flight, and every
\* queued request is eventually resolved or rejected, so that the call that
\* made it ends.
C3_QueueSettles ==
  /\ [](InitRuns = {} => embeddingModelQueue = <<>>)
  /\ \A p \in Calls :
       (calls[p].pc = "queued") ~> (calls[p].pc \in {"done", "failed"})

\* A request that was queued has been resolved after the load, another has
\* been rejected, and no run is left.
C3_Witness ==
  /\ InitRuns = {}
  /\ \E p, q \in Calls :
       /\ calls[p].embedPath = "queued" /\ calls[p].pc = "done"
       /\ calls[q].embedPath = "queued" /\ calls[q].pc = "failed"

\* C4: when the initialization fails, every queued request is rejected, the
\* queue is emptied and the gateway is back in the not-initialized state; the
\* next embed call for an uncached text then starts a new initialization.
C4_FailedInitialization ==
  [][/\ \A o \in Owners :
          (inits[o].pc = "pipeline" /\ inits'[o].pc = "none" /\ ~embeddingModel')
            => /\ \A i \in 1..Len(embeddingModelQueue) :
                    LET request == embeddingModelQueue[i]
                    IN /\ calls'[request].pc = "resume"
                       /\ ~calls'[request].embedOk
                       /\ \E j \in 1..Len(microtasks') :
                            microtasks'[j] = <<"call", request>>
               /\ embeddingModelQueue' = <<>>
               /\ ~isEmbeddingModelLoading'
               /\ InitRuns' = {}
     /\ \A p \in Calls :
          (ArrivesUncached(p) /\ ~embeddingModel /\ InitRuns = {})
            => /\ inits'[p].pc = "pipeline"
               /\ isEmbeddingModelLoading'
               /\ calls'[p].pc = "awaitInit"
               /\ embeddingModelQueue' = <<>>]_vars

\* A queued request was rejected by a failed load without any inference,
\* and a later call started a new initialization.
C4_Witness ==
  \E p, q \in Calls :
    /\ calls[p].embedPath = "queued" /\ calls[p].pc = "failed"
    /\ calls[p].inferences = 0
    /\ p < q /\ calls[q].embedPath = "init"

\* The embed of call p has been requested and has not settled.
EmbedInFlight(p) ==
  calls[p].pc \in {"queued", "draining", "awaitInit", "resumeInit", "inferring"}

\* C5: two embed calls for the same normalized text that are in flight at
\* the same time invoke the inference at most once between them.
C5_Deduplicated ==
  \A p, q \in Calls :
    (/\ p # q
     /\ EmbedInFlight(p) /\ EmbedInFlight(q)
     /\ Normalize(calls[p].embedText) = Normalize(calls[q].embedText))
      => calls[p].inferences + calls[q].inferences <= 1

\* C6: an embed that starts after an embed of a text with the same
\* normalized form has returned gets the vector every such earlier embed
\* returned, from the cache and without inference.
C6_SequentialEmbedsAgree ==
  \A p \in Calls :
    (calls[p].seenReturned # {} /\ ~EmbedInFlight(p))
      => /\ calls[p].seenReturned = {calls[p].embedding}
         /\ calls[p].embedPath = "hit"
         /\ calls[p].inferences = 0

\* The search tools, which all go through searchMemory.
SearchOps == {"retrieve", "enhance", "process"}

\* Call p looks its query up in the retrieval cache and finds an entry.
RetrievalLookup(p) ==
  /\ Arrives(p)
  /\ calls'[p].op \in SearchOps
  /\ Has(retrievalCache, Normalize(calls'[p].text))

\* searchMemory of call p returns in this step.
SearchReturns(p) == ~calls[p].searchReturned /\ calls'[p].searchReturned

\* Call p of acrs_process looks its prompt up in the response cache and
\* finds an entry.
ResponseLookup(p) ==
  /\ calls'[p].op = "process"
  /\ calls[p].pc \notin {"llm", "done", "failed"}
  /\ calls'[p].pc \in {"llm", "done"}
  /\ Has(llmResponseCache, Trim(calls'[p].enhancedPrompt))

\* C7: in the retrieval cache and in the response cache an entry stored at T
\* is served exactly to the lookups before T + CACHE_LIFETIME; a lookup at
\* or after it evicts the entry and recomputes: the query is embedded and
\* every non-empty category searched again, respectively the LLM is called.
C7_LifetimeExpiry ==
  [][\A p \in Calls :
       /\ RetrievalLookup(p) =>
            LET cacheKey == Normalize(calls'[p].text)
                cached == retrievalCache[cacheKey]
            IN IF now - cached.timestamp < CACHE_LIFETIME
               THEN /\ calls'[p].servedFromCache
                    /\ calls'[p].results = cached.results
                    /\ calls'[p].embedPath = "none"
                    /\ retrievalCache' = retrievalCache
               ELSE /\ ~calls'[p].servedFromCache
                    /\ ~Has(retrievalCache', cacheKey)
                    /\ calls'[p].embedPath # "none"
                    /\ metrics'.queryCount = metrics.queryCount + 1
       /\ (SearchReturns(p) /\ calls[p].evictedRetrieval /\ calls[p].embedOk) =>
            /\ calls'[p].searches =
                 Cardinality({c \in CategorySet : Len(memoryItems[c]) > 0})
            /\ Has(retrievalCache', Normalize(calls[p].text))
            /\ retrievalCache'[Normalize(calls[p].text)] =
                 [results |-> calls'[p].results, timestamp |-> now]
       /\ ResponseLookup(p) =>
            LET cacheKey == Trim(calls'[p].enhancedPrompt)
                cached == llmResponseCache[cacheKey]
            IN IF now - cached.timestamp < CACHE_LIFETIME
               THEN /\ calls'[p].pc = "done"
                    /\ calls'[p].fromCache
                    /\ calls'[p].response = cached.response
                    /\ calls'[p].llmCalls = 0
                    /\ llmResponseCache' = llmResponseCache
               ELSE /\ calls'[p].pc = "llm"
                    /\ ~calls'[p].fromCache
                    /\ calls'[p].llmCalls = 1
                    /\ ~Has(llmResponseCache', cacheKey)]_vars

\* A request that arrived exactly one lifetime after both entries were
\* stored evicted both, searched the store again and called the LLM again.
C7_Witness ==
  \E p \in Calls :
    /\ calls[p].op = "process" /\ calls[p].pc = "done"
    /\ calls[p].evictedRetrieval /\ calls[p].evictedResponse
    /\ calls[p].startTime = CACHE_LIFETIME
    /\ calls[p].searches >= 1 /\ calls[p].llmCalls = 1
    /\ ~calls[p].fromCache /\ calls[p].results # <<>>

\* The embed of call p looks its text up in the embedding cache.
EmbedLookup(p) == calls[p].embedPath = "none" /\ calls'[p].embedPath # "none"

HitFrame(p) ==
  /\ UNCHANGED <<embeddingCache, retrievalCache, llmResponseCache, vectorStores,
                 memoryItems, embeddingModel, isEmbeddingModelLoading,
                 embeddingModelQueue, inits, now, uuidCounter>>
  /\ \A q \in Calls \ {p} : calls'[q] = calls[q]
  /\ calls'[p].embedPath = "none"
  /\ calls'[p].inferences = 0
  /\ calls'[p].searches = 0

\* C9: a retrieve whose normalized query has a live entry in the retrieval
\* cache returns the cached list, embeds nothing, searches nothing, and
\* changes only cacheHits and cacheQueries, each by one.
C9_HitFrame ==
  [][\A p \in Calls :
       /\ (RetrievalLookup(p) /\ calls'[p].op = "retrieve"
            /\ now - retrievalCache[Normalize(calls'[p].text)].timestamp
                 < CACHE_LIFETIME)
            => /\ calls'[p].results =
                    retrievalCache[Normalize(calls'[p].text)].results
               /\ calls'[p].pc = "searched"
               /\ metrics' = [metrics EXCEPT !.cacheHits = @ + 1,
                                             !.cacheQueries = @ + 1]
               /\ HitFrame(p)
       /\ (calls[p].op = "retrieve" /\ calls[p].pc = "searched"
            /\ calls'[p].pc # "searched")
            => /\ calls'[p].pc = "done"
               /\ calls'[p].results = calls[p].results
               /\ metrics' = metrics
               /\ HitFrame(p)]_vars

\* A retrieve was served a non-empty list from the cache and has returned.
C9_Witness ==
  \E p \in Calls :
    /\ calls[p].op = "retrieve" /\ calls[p].pc = "done"
    /\ calls[p].servedFromCache /\ calls[p].results # <<>>
    /\ calls[p].startTime > 0

Computed(p) ==
  /\ calls[p].op = "retrieve" /\ calls[p].searchReturned
  /\ ~calls[p].servedFromCache /\ calls[p].embedOk

\* searchMemory of call p computes its list from the stores in this step.
Computes(p) ==
  /\ SearchReturns(p) /\ calls[p].op = "retrieve"
  /\ ~calls'[p].servedFromCache /\ calls[p].embedOk

\* The raw similarity of a stored item to the query of call p.
Similarity(item, p) == InnerProduct(item.embedding, calls[p].embedding)

\* The stored items, by category and position, that reach the threshold for
\* the query of call p.
Passing(p) ==
  {x \in CategorySet \X (1..uuidCounter) :
     /\ x[2] <= Len(memoryItems[x[1]])
     /\ Similarity(memoryItems[x[1]][x[2]], p) >= SIMILARITY_THRESHOLD}

\* C11 as stated: every hit in a computed retrieve result has a raw
\* similarity strictly above the threshold.
C11_ThresholdExclusive ==
  \A p \in Calls :
    Computed(p) =>
      \A i \in 1..Len(calls[p].results) :
        Similarity(calls[p].results[i].item, p) > SIMILARITY_THRESHOLD

\* C11, amended: a computed retrieve result holds only hits of raw
\* similarity at or above the threshold, and a stored item whose raw
\* similarity is at or above it, exactly the threshold included, is in the
\* result whenever no more than maxResults items reach the threshold.
C11_ThresholdInclusive ==
  [][\A p \in Calls :
       Computes(p) =>
         /\ \A i \in 1..Len(calls'[p].results) :
              Similarity(calls'[p].results[i].item, p) >= SIMILARITY_THRESHOLD
         /\ Cardinality(Passing(p)) <= calls[p].maxResults =>
              \A x \in Passing(p) :
                \E i \in 1..Len(calls'[p].results) :
                  calls'[p].results[i].item = memoryItems[x[1]][x[2]]]_vars

\* A computed result holds an item of exactly the threshold while an item
\* stored before the call arrived, below the threshold, is left out.
C11_Witness ==
  \E p \in Calls :
    /\ Computed(p)
    /\ \E i \in 1..Len(calls[p].results) :
         Similarity(calls[p].results[i].item, p) = SIMILARITY_THRESHOLD
    /\ \E c \in CategorySet : \E j \in 1..Len(memoryItems[c]) :
         /\ memoryItems[c][j].id <= calls[p].stored
         /\ Similarity(memoryItems[c][j], p) < SIMILARITY_THRESHOLD

\* C12: the list a retrieve returns, served from the cache or computed, has
\* at most maxResults elements.
C12_AtMostMaxResults ==
  \A p \in Calls :
    (calls[p].op = "retrieve" /\ calls[p].searchReturned)
      => Len(calls[p].results) <= calls[p].maxResults

\* C13: in a computed retrieve result that holds two items of equal raw
\* similarity whose categories have different weights, the item of the
\* higher-weighted category comes first.
C13_HigherWeightFirst ==
  \A p \in Calls :
    Computed(p) =>
      \A i, j \in 1..Len(calls[p].results) :
        LET first == calls[p].results[i].item
            second == calls[p].results[j].item
        IN (/\ Similarity(first, p) = Similarity(second, p)
            /\ CATEGORY_WEIGHTS[first.category]
                 > CATEGORY_WEIGHTS[second.category])
             => i < j

\* A computed result holds an item of code before an item of general, which
\* was searched first, both of the same raw similarity.
C13_Witness ==
  \E p \in Calls :
    /\ Computed(p)
    /\ Len(calls[p].results) = 2
    /\ calls[p].results[1].item.category = "code"
    /\ calls[p].results[2].item.category = "general"
    /\ Similarity(calls[p].results[1].item, p)
         = Similarity(calls[p].results[2].item, p)

\* C14: retrieve never fails.  A failed embedding step (initialization or
\* inference) or a failed index search makes it return the empty list;
\* enhance-prompt and process-request then go on with the original prompt,
\* and only the LLM call can fail a process-request.
C14_RetrieveNeverFails ==
  \A p \in Calls :
    calls[p].op \in SearchOps =>
      /\ (calls[p].searchReturned /\ ~calls[p].searchOk)
           => /\ calls[p].results = <<>>
              /\ (calls[p].op # "retrieve" /\ calls[p].pc \in {"llm", "done", "failed"})
                   => calls[p].enhancedPrompt = calls[p].text
      /\ (calls[p].embedPath # "none" /\ ~calls[p].embedOk
          /\ calls[p].pc \in {"llm", "done", "failed"})
           => calls[p].searchReturned /\ ~calls[p].searchOk
      /\ calls[p].pc = "failed"
           => calls[p].op = "process" /\ calls[p].llmCalls = 1

\* A search tool returned the empty list after a failed initialization (no
\* inference was made), and an enhance-prompt or process-request whose
\* index search failed went on with the original prompt.
C14_Witness ==
  \E p, q \in Calls :
    /\ calls[p].op \in SearchOps /\ calls[p].searchReturned
    /\ ~calls[p].embedOk /\ calls[p].inferences = 0
    /\ calls[p].pc \in {"llm", "done"}
    /\ calls[q].op \in {"enhance", "process"} /\ calls[q].searchReturned
    /\ calls[q].embedOk /\ ~calls[q].searchOk /\ calls[q].searches >= 1
    /\ calls[q].pc \in {"llm", "done"}
    /\ calls[q].enhancedPrompt = calls[q].text

\* C15: when retrieve returns the empty list, enhance-prompt returns the
\* original prompt with no wrapper text, no context items and a context
\* count of 0.
C15_EmptyContext ==
  \A p \in Calls :
    (calls[p].op = "enhance" /\ calls[p].pc = "done" /\ calls[p].results = <<>>)
      => /\ calls[p].enhancedPrompt = calls[p].text
         /\ calls[p].contextItems = <<>>
         /\ calls[p].contextCount = 0

\* An enhance-prompt on a store without items returned the original prompt,
\* and one on a store with an item returned a wrapped prompt.
C15_Witness ==
  \E p, q \in Calls :
    /\ calls[p].op = "enhance" /\ calls[p].pc = "done"
    /\ calls[p].embedOk /\ calls[p].searchOk /\ calls[p].stored = 0
    /\ calls[p].searches = 0 /\ calls[p].results = <<>>
    /\ calls[p].enhancedPrompt = calls[p].text
    /\ calls[q].op = "enhance" /\ calls[q].pc = "done"
    /\ calls[q].contextCount = 1
    /\ calls[q].enhancedPrompt # calls[q].text

\* Call p of acrs_process looks its prompt up in the response cache.
ProcessLooksUp(p) ==
  /\ calls'[p].op = "process"
  /\ calls[p].pc \notin {"llm", "done", "failed"}
  /\ calls'[p].pc \in {"llm", "done"}

\* The response cache holds a live entry for the prompt call p composed.
LiveResponse(p) ==
  /\ Has(llmResponseCache, Trim(calls'[p].enhancedPrompt))
  /\ now - llmResponseCache[Trim(calls'[p].enhancedPrompt)].timestamp
       < CACHE_LIFETIME

\* C16: a process-request whose trimmed composed prompt has a live entry in
\* the response cache returns the cached completion with fromCache true,
\* calls the LLM not at all and leaves the response cache as it was.
C16_ResponseHit ==
  /\ [][\A p \in Calls :
          (ProcessLooksUp(p) /\ LiveResponse(p))
            => /\ calls'[p].pc = "done"
               /\ calls'[p].fromCache
               /\ calls'[p].response =
                    llmResponseCache[Trim(calls'[p].enhancedPrompt)].response
               /\ calls'[p].llmCalls = 0
               /\ llmResponseCache' = llmResponseCache]_vars
  /\ [](\A p \in Calls :
          calls[p].fromCache => calls[p].pc = "done" /\ calls[p].llmCalls = 0)

\* A process-request was answered from the response cache at a time after
\* the entry was stored.
C16_Witness ==
  \E p \in Calls :
    /\ calls[p].op = "process" /\ calls[p].pc = "done"
    /\ calls[p].fromCache /\ calls[p].response \in Responses
    /\ calls[p].startTime > 0 /\ calls[p].llmCalls = 0

\* C17: a process-request that finds no entry or an expired entry in the
\* response cache calls the LLM once; when the call succeeds the completion
\* is stored under the composed prompt with the current time and returned
\* with fromCache false.
C17_ResponseMiss ==
  [][\A p \in Calls :
       /\ (ProcessLooksUp(p) /\ ~LiveResponse(p))
            => /\ calls'[p].pc = "llm"
               /\ calls'[p].llmCalls = 1
               /\ ~Has(llmResponseCache', Trim(calls'[p].enhancedPrompt))
                    \/ llmResponseCache' = llmResponseCache
       /\ (calls[p].pc = "llm" /\ calls'[p].pc = "done")
            => /\ calls'[p].llmCalls = 1
               /\ ~calls'[p].fromCache
               /\ calls'[p].response \in Responses
               /\ llmResponseCache' =
                    MapSet(llmResponseCache, Trim(calls[p].enhancedPrompt),
                           [response |-> calls'[p].response, timestamp |-> now])]_vars

\* A process-request that found an expired entry called the LLM once and
\* stored the completion with the time of the store.
C17_Witness ==
  \E p \in Calls :
    /\ calls[p].op = "process" /\ calls[p].pc = "done"
    /\ calls[p].evictedResponse /\ ~calls[p].fromCache
    /\ calls[p].llmCalls = 1
    /\ Has(llmResponseCache, Trim(calls[p].enhancedPrompt))
    /\ llmResponseCache[Trim(calls[p].enhancedPrompt)] =
         [response |-> calls[p].response, timestamp |-> CACHE_LIFETIME]

\* C18: when the LLM call of a process-request fails, the request fails, the
\* LLM was called once and not again, and the response cache is not written.
C18_LlmFailure ==
  /\ [][\A p \in Calls :
          (calls[p].pc = "llm" /\ calls'[p].pc # "llm" /\ calls'[p].response = "")
            => /\ calls'[p].pc = "failed"
               /\ calls'[p].llmCalls = 1
               /\ llmResponseCache' = llmResponseCache]_vars
  /\ [][\A p \in Calls : calls[p].pc = "failed" => calls'[p] = calls[p]]_vars

\* A process-request failed with its LLM call and left no entry for its
\* prompt in the response cache.
C18_Witness ==
  \E p \in Calls :
    /\ calls[p].op = "process" /\ calls[p].pc = "failed"
    /\ calls[p].llmCalls = 1
    /\ ~Has(llmResponseCache, Trim(calls[p].enhancedPrompt))

\* C19: an add-memory called with a category outside the closed set is not
\* answered with an error for the category, and when it ends the item is
\* stored under general.
C19_UnknownCategoryFallsBack ==
  \A p \in Calls :
    (calls[p].tool = "acrs_add_memory" /\ calls[p].inputCategory \notin CategorySet)
      => /\ calls[p].error = ""
         /\ calls[p].pc = "done" => calls[p].item.category = "general"

\* The tools that insert an item.
AddOps == {"add", "feedback"}

\* C20: the step in which an add-memory fails leaves every vector index,
\* every item list and the insertion counters unchanged, and these change
\* only in the step in which an add-memory succeeds, which extends the index
\* and the item list of its category by its item and adds one to its counter.
C20_AddAllOrNothing ==
  [][/\ \A p \in Calls :
          (calls'[p].op \in AddOps /\ calls[p].pc # "failed"
           /\ calls'[p].pc = "failed")
            => /\ vectorStores' = vectorStores
               /\ memoryItems' = memoryItems
               /\ metrics'.categoryCounts = metrics.categoryCounts
     /\ (\/ vectorStores' # vectorStores
         \/ memoryItems' # memoryItems
         \/ metrics'.categoryCounts # metrics.categoryCounts)
          => \E p \in Calls :
               LET c == calls'[p].category
                   item == calls'[p].item
               IN /\ calls'[p].op \in AddOps
                  /\ calls[p].pc # "done" /\ calls'[p].pc = "done"
                  /\ vectorStores' =
                       [vectorStores EXCEPT ![c] = Append(@, item.embedding)]
                  /\ memoryItems' = [memoryItems EXCEPT ![c] = Append(@, item)]
                  /\ metrics'.categoryCounts =
                       [metrics.categoryCounts EXCEPT ![c] = @ + 1]]_vars

\* One add-memory stored its item, one failed with its embedding and one
\* failed with the index add.
C20_Witness ==
  \E p, q, r \in Calls :
    /\ calls[p].op \in AddOps /\ calls[p].pc = "done"
    /\ calls[q].op \in AddOps /\ calls[q].pc = "failed" /\ ~calls[q].embedOk
    /\ calls[r].op \in AddOps /\ calls[r].pc = "failed" /\ calls[r].embedOk

\* searchMemory of call p has been entered and has not returned.
SearchInFlight(p) ==
  calls[p].op \in SearchOps /\ calls[p].pc # "idle" /\ ~calls[p].searchReturned

\* C21: whenever no retrieve is in flight, the query count equals the number
\* of recorded latencies and the number of recorded returned-item counts:
\* every retrieve that missed the retrieval cache added one to each.
C21_QueriesMatchLatencies ==
  (\A p \in Calls : ~SearchInFlight(p))
    => /\ metrics.queryCount = Len(metrics.retrievalTimes)
       /\ metrics.queryCount = Len(metrics.contextItemsUsed)

\* get-metrics has returned its snapshot to call p.
SnapshotReturned(p) == calls[p].op = "metrics" /\ calls[p].pc = "done"

\* C22: in every state the insertion counter of every category equals the
\* number of items stored in it; the categoryDistribution a get-metrics
\* returns holds these numbers, and a snapshot that was returned is not
\* changed by later inserts.
C22_CategoryDistribution ==
  /\ [](\A c \in CategorySet : metrics.categoryCounts[c] = Len(memoryItems[c]))
  /\ [][\A p \in Calls :
          (Arrives(p) /\ calls'[p].op = "metrics")
            => \A c \in CategorySet :
                 CategoryDistribution(Cur, p)'[c] = Len(memoryItems[c])]_vars
  /\ [][\A p \in Calls :
          SnapshotReturned(p)
            => CategoryDistribution(Cur, p)' = CategoryDistribution(Cur, p)]_vars

\* A snapshot taken after one insert still shows one item in the category
\* after a second item was inserted there.
C22_Witness ==
  \E p \in Calls :
    /\ SnapshotReturned(p)
    /\ CategoryDistribution(Cur, p)["code"] = 1
    /\ Len(memoryItems["code"]) = 2
    /\ metrics.categoryCounts["code"] = 2

\* List old is the beginning of list new.
IsPrefix(old, new) ==
  /\ Len(old) <= Len(new)
  /\ \A i \in 1..Len(old) : new[i] = old[i]

\* C23: the memory store is append-only: in every step the item list of
\* every category begins with the list it was before; no stored item is
\* removed, moved or modified, also not in a step that evicts a cache entry.
C23_AppendOnly ==
  [][\A c \in CategorySet : IsPrefix(memoryItems[c], memoryItems'[c])]_vars

\* Two items are stored in one category in the order of their insertion, the
\* second one after a retrieve had searched the category and cached its list.
C23_Witness ==
  /\ Len(memoryItems["code"]) = 2
  /\ memoryItems["code"][1].id < memoryItems["code"][2].id
  /\ \E p \in Calls :
       /\ calls[p].op = "retrieve" /\ calls[p].searchReturned
       /\ calls[p].results # <<>>
       /\ calls[p].results[1].item = memoryItems["code"][1]
       /\ retrievalCache # EmptyMap

\* What a tool call that is refused before its execute function leaves alone:
\* every cache, index, item list and metric, and the embedding gateway.
RefusedFrame(p) ==
  /\ UNCHANGED <<embeddingCache, retrievalCache, llmResponseCache, vectorStores,
                 memoryItems, metrics, embeddingModel, isEmbeddingModelLoading,
                 embeddingModelQueue, inits, microtasks, uuidCounter>>
  /\ \A q \in Calls \ {p} : calls'[q] = calls[q]
  /\ calls'[p].embedPath = "none"
  /\ calls'[p].inferences = 0

\* C24: a tool executed with input that fails its schema ends with an error
\* that names each invalid field once, its execute function is not run and
\* no cache, index, item list or metric changes; a tool name that is not
\* registered ends with an error and the same frame.  Input that passes the
\* schema raises no validation error and reaches execute.
C24_ValidationRefuses ==
  [][\A p \in Calls :
       /\ (Arrives(p) /\ calls'[p].tool = "acrs_add_memory") =>
            LET missing == calls'[p].text = Undefined
                unknown == calls'[p].inputCategory \notin CategorySet
            IN IF missing \/ unknown
               THEN /\ calls'[p].pc = "failed"
                    /\ calls'[p].error = "Input validation failed"
                    /\ calls'[p].errorFields =
                         (IF missing THEN <<"content">> ELSE <<>>)
                           \o (IF unknown THEN <<"category">> ELSE <<>>)
                    /\ RefusedFrame(p)
               ELSE /\ calls'[p].error = ""
                    /\ calls'[p].embedPath # "none"
       /\ (Arrives(p) /\ calls'[p].tool \notin ToolRegistry /\ calls'[p].tool # "")
            => /\ calls'[p].pc = "failed"
               /\ calls'[p].error = "not found"
               /\ RefusedFrame(p)]_vars

\* While an accepted add-memory is in flight, an input with two invalid
\* fields was refused with two messages and an unregistered name was refused.
C24_Witness ==
  \E p, q, r \in Calls :
    /\ calls[p].tool = "acrs_add_memory" /\ calls[p].error = ""
    /\ calls[p].embedPath # "none"
    /\ calls[q].tool = "acrs_add_memory" /\ calls[q].pc = "failed"
    /\ Len(calls[q].errorFields) = 2
    /\ calls[r].tool \notin ToolRegistry /\ calls[r].error = "not found"
    /\ p < q /\ p < r

\* The messages of the three classes of failure of the LLM HTTP call.
LlmErrorClasses ==
  {"LLM API request timed out", "LLM API returned an error",
   "Network error occurred"}

\* C25: every failed LLM HTTP call surfaces as one of three errors: the
\* timeout error exactly when the request timed out, the API error exactly
\* when a response with an error status came, the network error exactly when
\* the request was sent and no response came; and a process-request without
\* an API key fails without any HTTP request.
C25_ThreeErrorClasses ==
  \A p \in Calls :
    /\ (calls[p].pc = "failed" /\ calls[p].httpRequests > 0)
         => /\ calls[p].error \in LlmErrorClasses
            /\ calls[p].error = "LLM API request timed out"
                 <=> calls[p].httpFailure = "timed out"
            /\ calls[p].error = "LLM API returned an error"
                 <=> calls[p].httpFailure = "error status"
            /\ calls[p].error = "Network error occurred"
                 <=> calls[p].httpFailure = "no response"
    /\ (calls[p].llmCalls > 0 /\ ~scope.apiKey)
         => /\ calls[p].pc = "failed"
            /\ calls[p].httpRequests = 0
            /\ calls[p].error = "OpenRouter API key not found"

\* Quotient q has the value n / d (d > 0).
IsRatio(q, n, d) == q.den > 0 /\ q.num * d = n * q.den

\* C26: get-metrics changes no counter, list, cache, index or item list, and
\* the snapshot it returns holds cacheHitRate = cacheHits / cacheQueries (0
\* when cacheQueries is 0) and averageRetrievalTime = the mean of the
\* recorded latencies (0 when there is none).
C26_MetricsReadOnly ==
  [][\A p \in Calls :
       (Arrives(p) /\ calls'[p].op = "metrics")
         => /\ UNCHANGED <<embeddingCache, retrievalCache, llmResponseCache,
                           vectorStores, memoryItems, metrics, embeddingModel,
                           isEmbeddingModelLoading, embeddingModelQueue, inits,
                           microtasks, uuidCounter>>
            /\ \A q \in Calls \ {p} : calls'[q] = calls[q]
            /\ calls'[p].pc = "done"
            /\ LET snapshot == calls'[p].snapshot
                   times == metrics.retrievalTimes
               IN /\ snapshot.totalQueries = metrics.queryCount
                  /\ IF metrics.cacheQueries = 0
                     THEN snapshot.cacheHitRate.num = 0
                     ELSE IsRatio(snapshot.cacheHitRate, metrics.cacheHits,
                                  metrics.cacheQueries)
                  /\ IF Len(times) = 0
                     THEN snapshot.averageRetrievalTime.num = 0
                     ELSE IsRatio(snapshot.averageRetrievalTime, Sum(times),
                                  Len(times))]_vars

\* A snapshot taken after a computed retrieve that took time and a retrieve
\* served from the cache: a hit rate strictly between 0 and 1, which is not
\* hits per query, and a mean latency above 0.
C26_Witness ==
  \E p \in Calls :
    /\ SnapshotReturned(p)
    /\ calls[p].snapshot.cacheHitRate.num > 0
    /\ calls[p].snapshot.cacheHitRate.num < calls[p].snapshot.cacheHitRate.den
    /\ calls[p].snapshot.cacheHitRate.den # calls[p].snapshot.totalQueries
    /\ calls[p].snapshot.averageRetrievalTime.num > 0

\* The effective score of the stored item at position x = <<category, i>>
\* for the query of call p: raw similarity times category weight.
Effective(x, p) ==
  Similarity(memoryItems[x[1]][x[2]], p) * CATEGORY_WEIGHTS[x[1]]

\* C27: a retrieve that computes its result with the embedding of its query
\* returns the reference result: min(maxResults, number of passing items)
\* distinct stored items whose raw similarity passes the threshold, each
\* with its effective score, in descending order of effective score, and no
\* passing item that is left out has a higher effective score than one that
\* is returned.
C27_ReferenceResult ==
  [][\A p \in Calls :
       Computes(p) =>
         LET results == calls'[p].results
             returned == {results[i].item : i \in 1..Len(results)}
         IN /\ Len(results) = Min(calls[p].maxResults, Cardinality(Passing(p)))
            /\ Cardinality(returned) = Len(results)
            /\ \A i \in 1..Len(results) :
                 \E x \in Passing(p) :
                   /\ results[i].item = memoryItems[x[1]][x[2]]
                   /\ results[i].score = Effective(x, p)
            /\ \A i, j \in 1..Len(results) :
                 i < j => results[i].score >= results[j].score
            /\ \A x \in Passing(p) :
                 memoryItems[x[1]][x[2]] \notin returned
                   => \A i \in 1..Len(results) :
                        results[i].score >= Effective(x, p)]_vars

\* A computed result of two items of different categories and different
\* effective scores, where three stored items passed the threshold and the
\* one left out is of the category of the first result, which was searched
\* second.
C27_Witness ==
  \E p \in Calls :
    /\ Computed(p)
    /\ Len(calls[p].results) = 2
    /\ calls[p].stored = 3
    /\ Cardinality(Passing(p)) = 3
    /\ Len(memoryItems["concepts"]) = 2
    /\ calls[p].results[1].item.category = "concepts"
    /\ calls[p].results[2].item.category = "general"
    /\ calls[p].results[1].score > calls[p].results[2].score

\* The place of a category in the fixed order of line 253.
CategoryIndex(category) ==
  CHOOSE i \in 1..Len(MEMORY_CATEGORIES) : MEMORY_CATEGORIES[i] = category

\* The index search of call p in a category returns item first before item
\* second.
SearchedBefore(p, category, first, second) ==
  LET items == memoryItems[category]
      hits == IndexSearch(vectorStores[category], calls[p].embedding,
                          Min(calls[p].maxResults, Len(items)))
  IN \E a, b \in 1..Len(hits) :
       /\ a < b
       /\ items[hits[a].neighbor] = first
       /\ items[hits[b].neighbor] = second

\* C28: of two hits of equal effective score in a computed result, the one
\* whose category comes earlier in the fixed category order is first, and
\* two of the same category are in the order the index search returned them.
C28_StableTies ==
  [][\A p \in Calls :
       Computes(p) =>
         LET results == calls'[p].results
         IN \A i, j \in 1..Len(results) :
              (i < j /\ results[i].score = results[j].score)
                => LET first == results[i].item
                       second == results[j].item
                   IN IF first.category = second.category
                      THEN SearchedBefore(p, first.category, first, second)
                      ELSE CategoryIndex(first.category)
                             < CategoryIndex(second.category)]_vars

\* A computed result with two hits of equal effective score and different
\* raw similarity: the item of general before the item of concepts, which
\* was stored first.
C28_Witness ==
  \E p \in Calls :
    /\ Computed(p)
    /\ Len(calls[p].results) = 2
    /\ calls[p].results[1].score = calls[p].results[2].score
    /\ calls[p].results[1].item.category = "general"
    /\ calls[p].results[2].item.category = "concepts"
    /\ calls[p].results[2].item.id < calls[p].results[1].item.id
    /\ Similarity(calls[p].results[1].item, p)
         > Similarity(calls[p].results[2].item, p)

\* The requests that were queued and are not yet resolved or rejected.
Unsettled == {p \in Calls : calls[p].pc \in {"queued", "draining"}}

\* C29: the queue holds the requests in the order of their arrival and the
\* drain takes them from its head; a queued request is taken, and its
\* inference started, only when every request queued before it has been
\* resolved or rejected, so that at most one is being drained; and the
\* loading flag is raised as long as a request is queued or being drained.
C29_FifoDrain ==
  /\ [](\A i, j \in 1..Len(embeddingModelQueue) :
          i < j => embeddingModelQueue[i] < embeddingModelQueue[j])
  /\ [](Cardinality({p \in Calls : calls[p].pc = "draining"}) <= 1)
  /\ [](Unsettled # {} => isEmbeddingModelLoading)
  /\ [][\A p \in Calls :
          (calls[p].pc = "queued" /\ calls'[p].pc # "queued" /\ embeddingModel')
            => /\ p = Head(embeddingModelQueue)
               /\ embeddingModelQueue' = Tail(embeddingModelQueue)
               /\ \A q \in Calls :
                    (q < p /\ calls[q].embedPath = "queued")
                      => calls'[q].pc \notin {"queued", "draining"}]_vars
  /\ [][\A p \in Calls :
          (calls'[p].inferences > calls[p].inferences
           /\ calls'[p].embedPath = "queued")
            => \A q \in Unsettled' : q >= p]_vars

\* The first of three queued requests has been resolved with its inferred
\* vector, the inference of the second is running and the third waits in
\* the queue, the flag being raised.
C29_Witness ==
  \E p, q, r \in Calls :
    /\ p < q /\ q < r
    /\ calls[p].embedPath = "queued" /\ calls[p].inferences = 1
    /\ calls[p].embedOk /\ calls[p].pc \notin {"queued", "draining"}
    /\ calls[q].pc = "draining" /\ calls[q].inferences = 1
    /\ embeddingModelQueue = <<r>>
    /\ isEmbeddingModelLoading /\ embeddingModel

\* C30: a submit-feedback that succeeds appends one item, made of the
\* feedback text and its embedding, to the index and the item list of
\* metadata and adds one to the counter of metadata; no step of it changes
\* another category, the retrieval cache or the response cache; and when
\* the embedding of the feedback text fails it fails and inserts nothing.
C30_FeedbackFrame ==
  /\ [][\A p \in Calls :
          (calls'[p].op = "feedback" /\ calls'[p] # calls[p])
            => /\ retrievalCache' = retrievalCache
               /\ llmResponseCache' = llmResponseCache
               /\ \A c \in CategorySet \ {"metadata"} :
                    /\ vectorStores'[c] = vectorStores[c]
                    /\ memoryItems'[c] = memoryItems[c]
                    /\ metrics'.categoryCounts[c] = metrics.categoryCounts[c]
               /\ IF calls'[p].pc = "done"
                  THEN LET item == calls'[p].item
                       IN /\ item.category = "metadata"
                          /\ item.content = FeedbackContent(calls'[p].text)
                          /\ item.embedding = calls[p].embedding
                          /\ calls[p].embedOk
                          /\ vectorStores'["metadata"] =
                               Append(vectorStores["metadata"], item.embedding)
                          /\ memoryItems'["metadata"] =
                               Append(memoryItems["metadata"], item)
                          /\ metrics'.categoryCounts["metadata"] =
                               metrics.categoryCounts["metadata"] + 1
                  ELSE /\ vectorStores' = vectorStores
                       /\ memoryItems' = memoryItems
                       /\ metrics'.categoryCounts = metrics.categoryCounts]_vars
  /\ [](\A p \in Calls :
          (calls[p].op = "feedback" /\ calls[p].pc \in {"done", "failed"}
           /\ ~calls[p].embedOk)
            => calls[p].pc = "failed" /\ calls[p].item = NoItem)

\* With an item stored under code, one feedback stored its item under
\* metadata and another failed with the inference of its text.
C30_Witness ==
  /\ Len(memoryItems["code"]) = 1
  /\ Len(memoryItems["metadata"]) = 1
  /\ \E p, q \in Calls :
       /\ calls[p].op = "feedback" /\ calls[p].pc = "done"
       /\ memoryItems["metadata"][1] = calls[p].item
       /\ calls[p].item.content # calls[p].text
       /\ calls[q].op = "feedback" /\ calls[q].pc = "failed"
       /\ ~calls[q].embedOk /\ calls[q].inferences = 1

\* C31: a retrieve that does not fail returns every item whose add-memory
\* had completed when the retrieve started, whose raw similarity to the
\* query passes the threshold and which fewer than maxResults stored items
\* beat in effective score; also when the query was retrieved before the
\* item was inserted.
C31_InsertedItemIsSeen ==
  [][\A p \in Calls :
       (SearchReturns(p) /\ calls'[p].op = "retrieve" /\ calls'[p].searchOk)
         => LET query == ModelOutput(calls'[p].text)
                score(x) == InnerProduct(memoryItems[x[1]][x[2]].embedding, query)
                              * CATEGORY_WEIGHTS[x[1]]
                stored == {x \in CategorySet \X (1..uuidCounter) :
                             x[2] <= Len(memoryItems[x[1]])}
                returned == {calls'[p].results[i].item :
                               i \in 1..Len(calls'[p].results)}
            IN \A x \in stored :
                 LET item == memoryItems[x[1]][x[2]]
                 IN (/\ item.id <= calls'[p].stored
                     /\ InnerProduct(item.embedding, query) >= SIMILARITY_THRESHOLD
                     /\ Cardinality({y \in stored : score(y) > score(x)})
                          < calls'[p].maxResults)
                      => item \in returned]_vars

\* C32: of two process-requests with the same composed prompt that start
\* less than a cache lifetime apart, concurrent or not, at most one gets its
\* completion from a successful LLM call; the other is served from the
\* response cache.
C32_SingleLlmCall ==
  \A p, q \in Calls :
    (/\ p < q
     /\ calls[p].op = "process" /\ calls[p].pc = "done"
     /\ calls[q].op = "process" /\ calls[q].pc = "done"
     /\ Trim(calls[p].enhancedPrompt) = Trim(calls[q].enhancedPrompt)
     /\ calls[q].startTime - calls[p].startTime < CACHE_LIFETIME)
      => /\ calls[p].fromCache \/ calls[q].fromCache
         /\ calls[p].httpRequests + calls[q].httpRequests <= 1

\* C33: every embed call adds exactly one to cacheQueries and at most one to
\* cacheHits, on every path: with add-memory calls only, each of which embeds
\* its content once, cacheQueries is the number of calls that have arrived
\* and cacheHits is at most the number of those served from the embedding
\* cache without queueing.
C33_OneQueryPerEmbed ==
  /\ metrics.cacheQueries = Cardinality({p \in Calls : calls[p].pc # "idle"})
  /\ metrics.cacheHits <= Cardinality({p \in Calls : calls[p].embedPath \in {"hit", "queued"}})

\* C34: in every reachable state 0 <= cacheHits <= cacheQueries, every
\* snapshot that get-metrics returned reports a cacheHitRate between 0 and 1,
\* and no step decreases cacheHits or cacheQueries.
C34_HitsWithinQueries ==
  /\ [](/\ 0 <= metrics.cacheHits
        /\ metrics.cacheHits <= metrics.cacheQueries
        /\ \A p \in Calls :
             SnapshotReturned(p)
               => /\ calls[p].snapshot.cacheHitRate.den > 0
                  /\ 0 <= calls[p].snapshot.cacheHitRate.num
                  /\ calls[p].snapshot.cacheHitRate.num
                       <= calls[p].snapshot.cacheHitRate.den)
  /\ [][/\ metrics'.cacheHits >= metrics.cacheHits
        /\ metrics'.cacheQueries >= metrics.cacheQueries]_vars

\* A retrieve was served from the retrieval cache, which counted a hit, and
\* a snapshot taken after it reports a rate strictly between 0 and 1.
C34_Witness ==
  /\ \E p \in Calls : calls[p].op = "retrieve" /\ calls[p].servedFromCache
  /\ metrics.cacheHits = 1
  /\ \E p \in Calls :
       /\ SnapshotReturned(p)
       /\ calls[p].snapshot.cacheHits = 1
       /\ calls[p].snapshot.cacheHitRate.num > 0
       /\ calls[p].snapshot.cacheHitRate.num < calls[p].snapshot.cacheHitRate.den

\* C35: a retrieve that fails returns the empty list and leaves the
\* retrieval cache as it is; a retrieve that finds an expired entry removes
\* it; an entry, empty or not, is written only by the step in which a search
\* of its query succeeds, and holds the list that search returned; and a
\* retrieve of a query of which every earlier search has failed is not
\* served from the cache but computes again.
C35_FailureNotCached ==
  [][/\ \A p \in Calls :
          /\ (SearchReturns(p) /\ calls'[p].op = "retrieve"
               /\ ~calls'[p].searchOk)
               => /\ calls'[p].results = <<>>
                  /\ retrievalCache' = retrievalCache
          /\ (RetrievalLookup(p) /\ calls'[p].op = "retrieve"
               /\ now - retrievalCache[Normalize(calls'[p].text)].timestamp
                    >= CACHE_LIFETIME)
               => ~Has(retrievalCache', Normalize(calls'[p].text))
          /\ (/\ Arrives(p) /\ calls'[p].op = "retrieve"
              /\ \E q \in Calls \ {p} :
                   /\ calls[q].op \in SearchOps /\ calls[q].searchReturned
                   /\ Normalize(calls[q].text) = Normalize(calls'[p].text)
              /\ \A q \in Calls \ {p} :
                   (/\ calls[q].op \in SearchOps /\ calls[q].searchReturned
                    /\ Normalize(calls[q].text) = Normalize(calls'[p].text))
                     => ~calls[q].searchOk)
               => /\ ~calls'[p].servedFromCache
                  /\ ~calls'[p].searchReturned
                  /\ metrics'.queryCount = metrics.queryCount + 1
     /\ \A k \in DOMAIN retrievalCache' :
          (~Has(retrievalCache, k) \/ retrievalCache'[k] # retrievalCache[k])
            => \E p \in Calls :
                 /\ SearchReturns(p) /\ calls'[p].searchOk
                 /\ ~calls'[p].servedFromCache
                 /\ Normalize(calls'[p].text) = k
                 /\ retrievalCache'[k].results = calls'[p].results]_vars

\* A retrieve failed and returned the empty list; the next retrieve of the
\* same query computed again, succeeded on the empty store, and its empty
\* list is the cached entry.
C35_Witness ==
  \E p, q \in Calls :
    /\ calls[q].op = "retrieve" /\ calls[q].searchReturned
    /\ ~calls[q].searchOk /\ calls[q].results = <<>>
    /\ calls[p].op = "retrieve" /\ calls[p].searchReturned
    /\ Normalize(calls[p].text) = Normalize(calls[q].text)
    /\ calls[p].prev.exists /\ ~calls[p].prev.ok
    /\ calls[p].searchOk /\ ~calls[p].servedFromCache
    /\ calls[p].results = <<>>
    /\ Has(retrievalCache, Normalize(calls[p].text))
    /\ retrievalCache[Normalize(calls[p].text)].results = <<>>

====
